---------------------------- MODULE Spec2Model ----------------------------
(***************************************************************************)
(* A model of vstat: the univariate and bivariate accumulators, the        *)
(* Schubert-Gertz combine of SIMD lanes and the accumulate drivers.        *)
(*                                                                         *)
(* Numbers.  The C++ type T (float, double, or one lane of eve::wide<T>)   *)
(* is modelled by exact rationals extended with the IEEE-754 non-finite    *)
(* values, so that a division by zero is a value the model can see:        *)
(*     <<n, d>> with d > 0, gcd(n, d) = 1   the rational n/d               *)
(*     <<1, 0>>, <<-1, 0>>                  +infinity, -infinity           *)
(*     <<0, 0>>                             NaN                            *)
(* Rounding is not modelled (the statements checked are the ones the       *)
(* specification makes "in exact arithmetic"); a zero is always +0.        *)
(***************************************************************************)
EXTENDS Integers, Sequences, FiniteSets, TLC

---------------------------------------------------------------------------
(* Exact arithmetic with IEEE non-finite values.                           *)

Abs(n) == IF n < 0 THEN -n ELSE n

Sign(n) == IF n < 0 THEN -1 ELSE IF n = 0 THEN 0 ELSE 1

RECURSIVE GCD(_, _)
GCD(a, b) == IF b = 0 THEN a ELSE GCD(b, a % b)

\* the canonical form of n/d (d of any sign; d = 0 gives infinity or NaN)
Norm(n, d) ==
    IF d = 0 THEN <<Sign(n), 0>>
    ELSE LET g == GCD(Abs(n), Abs(d))
             sg == IF d < 0 THEN -1 ELSE 1
         IN  <<(sg * n) \div g, Abs(d) \div g>>

Q(n) == <<n, 1>>

NaN == <<0, 0>>

IsFinite(a) == a[2] # 0

IsNaN(a) == a = NaN

Add(a, b) ==
    IF a[2] = 0 /\ b[2] = 0
    THEN (IF a = b THEN a ELSE NaN)
    ELSE IF a[2] = 0 THEN a
    ELSE IF b[2] = 0 THEN b
    ELSE LET g == GCD(a[2], b[2])
         IN  Norm(a[1] * (b[2] \div g) + b[1] * (a[2] \div g), (a[2] \div g) * b[2])

Neg(a) == <<-a[1], a[2]>>

Sub(a, b) == Add(a, Neg(b))

\* the product, cancelling across before multiplying
Mul(a, b) ==
    IF a[2] = 0 \/ b[2] = 0 THEN <<Sign(a[1] * b[1]), 0>>
    ELSE IF a[1] = 0 \/ b[1] = 0 THEN <<0, 1>>
    ELSE LET g1 == GCD(Abs(a[1]), b[2])
             g2 == GCD(Abs(b[1]), a[2])
         IN  <<(a[1] \div g1) * (b[1] \div g2), (a[2] \div g2) * (b[2] \div g1)>>

\* a / b: x/0 is +-infinity, 0/0, inf/inf and x/NaN are NaN, x/inf is 0
Div(a, b) ==
    IF b[2] = 0 THEN (IF a[2] = 0 \/ b[1] = 0 THEN NaN ELSE <<0, 1>>)
    ELSE IF a[2] = 0 THEN <<a[1] * (IF b[1] < 0 THEN -1 ELSE 1), 0>>
    ELSE IF b[1] = 0 THEN <<Sign(a[1]), 0>>
    ELSE Mul(a, IF b[1] < 0 THEN <<-b[2], -b[1]>> ELSE <<b[2], b[1]>>)

\* a < b as IEEE compares: false when either side is NaN
Less(a, b) ==
    /\ ~IsNaN(a) /\ ~IsNaN(b)
    /\ IF a[2] = 0 THEN a[1] < 0 /\ b # a
       ELSE IF b[2] = 0 THEN b[1] > 0
       ELSE LET g == GCD(a[2], b[2])
            IN  a[1] * (b[2] \div g) < b[1] * (a[2] \div g)

\* a <= b on T (false when either side is NaN)
Leq(a, b) == (a = b /\ ~IsNaN(a)) \/ Less(a, b)

Zero == Q(0)

One == Q(1)

---------------------------------------------------------------------------
(* combine.hpp: merging the lanes of a wide accumulator.  A wide value is  *)
(* a sequence of lanes.                                                    *)

square(a) == Mul(a, a)

\* eve::reduce: the horizontal sum of the lanes
RECURSIVE reduce(_)
reduce(v) == IF v = <<>> THEN Zero ELSE Add(v[1], reduce(Tail(v)))

\* wide::slice(): the lower and the upper half of the lanes
slice(v) ==
    LET h == Len(v) \div 2
    IN  <<SubSeq(v, 1, h), SubSeq(v, h + 1, Len(v))>>

\* a faulty merge (sensitivity check of C10): the factor (n0 + n1) is
\* missing from the scale of the correction term
merge_unscaled(n0, s0, q0, n1, s1, q1) ==
    LET f == Div(One, Mul(n0, n1))
    IN  Add(Add(q0, q1), Mul(f, square(Sub(Mul(n1, s0), Mul(n0, s1)))))

\* the pairwise merge of two partitions with weights n0, n1, sums s0, s1 and
\* residuals q0, q1 (the last two statements of combine's recursive branch)
merge(n0, s0, q0, n1, s1, q1) ==
    LET f == Div(One, Mul(Mul(n0, n1), Add(n0, n1)))
    IN  Add(Add(q0, q1), Mul(f, square(Sub(Mul(n1, s0), Mul(n0, s1)))))

\* a faulty combine (sensitivity check of C5): the lane residuals are
\* summed, the differences between the lane means are ignored
combine_naive(sum_w, sum_x, sum_xx) == reduce(sum_xx)

\* combine(T sum_w, T sum_x, T sum_xx) -> double
RECURSIVE combine(_, _, _)
combine(sum_w, sum_x, sum_xx) ==
    IF Len(sum_w) = 4
    THEN LET n0 == sum_w[1]   n1 == sum_w[2]   n2 == sum_w[3]   n3 == sum_w[4]
             s0 == sum_x[1]   s1 == sum_x[2]   s2 == sum_x[3]   s3 == sum_x[4]
             q0 == sum_xx[1]  q1 == sum_xx[2]  q2 == sum_xx[3]  q3 == sum_xx[4]
             n01 == Add(n0, n1)
             s01 == Add(s0, s1)
             n23 == Add(n2, n3)
             s23 == Add(s2, s3)
             f01 == Div(One, Mul(Mul(n0, n01), n1))
             f23 == Div(One, Mul(Mul(n2, n23), n3))
             f   == Div(One, Mul(Mul(n01, Add(n01, n23)), n23))
             q01 == Add(Add(q0, q1), Mul(f01, square(Sub(Mul(n0, s1), Mul(n1, s0)))))
             q23 == Add(Add(q2, q3), Mul(f23, square(Sub(Mul(n2, s3), Mul(n3, s2)))))
         IN  Add(Add(q01, q23), Mul(f, square(Sub(Mul(n01, s23), Mul(n23, s01)))))
    ELSE LET sum_w0 == slice(sum_w)[1]    sum_w1 == slice(sum_w)[2]
             sum_x0 == slice(sum_x)[1]    sum_x1 == slice(sum_x)[2]
             sum_xx0 == slice(sum_xx)[1]  sum_xx1 == slice(sum_xx)[2]
             s0 == reduce(sum_x0)
             s1 == reduce(sum_x1)
             q0 == combine(sum_w0, sum_x0, sum_xx0)
             q1 == combine(sum_w1, sum_x1, sum_xx1)
             n0 == reduce(sum_w0)
             n1 == reduce(sum_w1)
         IN  merge(n0, s0, q0, n1, s1, q1)

\* a faulty bivariate combine (sensitivity check of C26): the cross term
\* of sxy is left out, the lane values of sum_xy are summed
combine_bivariate_no_cross(sum_w, sum_x, sum_y, sum_xx, sum_yy, sum_xy) ==
    <<combine(sum_w, sum_x, sum_xx), combine(sum_w, sum_y, sum_yy), reduce(sum_xy)>>

\* combine(T sum_w, T sum_x, T sum_y, T sum_xx, T sum_yy, T sum_xy)
\*   -> tuple (sxx, syy, sxy)
RECURSIVE combine_bivariate(_, _, _, _, _, _)
combine_bivariate(sum_w, sum_x, sum_y, sum_xx, sum_yy, sum_xy) ==
    IF Len(sum_w) = 4
    THEN LET n0 == sum_w[1]  n1 == sum_w[2]  n2 == sum_w[3]  n3 == sum_w[4]
             sx0 == sum_x[1]  sx1 == sum_x[2]  sx2 == sum_x[3]  sx3 == sum_x[4]
             sy0 == sum_y[1]  sy1 == sum_y[2]  sy2 == sum_y[3]  sy3 == sum_y[4]
             sxx0 == sum_xx[1]  sxx1 == sum_xx[2]  sxx2 == sum_xx[3]  sxx3 == sum_xx[4]
             syy0 == sum_yy[1]  syy1 == sum_yy[2]  syy2 == sum_yy[3]  syy3 == sum_yy[4]
             sxy0 == sum_xy[1]  sxy1 == sum_xy[2]  sxy2 == sum_xy[3]  sxy3 == sum_xy[4]
             n01 == Add(n0, n1)
             sx01 == Add(sx0, sx1)
             sy01 == Add(sy0, sy1)
             n23 == Add(n2, n3)
             sx23 == Add(sx2, sx3)
             sy23 == Add(sy2, sy3)
             f01 == Div(One, Mul(Mul(n0, n01), n1))
             f23 == Div(One, Mul(Mul(n2, n23), n3))
             f   == Div(One, Mul(Mul(n01, Add(n01, n23)), n23))
             qx01 == Add(Add(sxx0, sxx1), Mul(f01, square(Sub(Mul(n0, sx1), Mul(n1, sx0)))))
             qx23 == Add(Add(sxx2, sxx3), Mul(f23, square(Sub(Mul(n2, sx3), Mul(n3, sx2)))))
             sxx  == Add(Add(qx01, qx23), Mul(f, square(Sub(Mul(n01, sx23), Mul(n23, sx01)))))
             qy01 == Add(Add(syy0, syy1), Mul(f01, square(Sub(Mul(n0, sy1), Mul(n1, sy0)))))
             qy23 == Add(Add(syy2, syy3), Mul(f23, square(Sub(Mul(n2, sy3), Mul(n3, sy2)))))
             syy  == Add(Add(qy01, qy23), Mul(f, square(Sub(Mul(n01, sy23), Mul(n23, sy01)))))
             q01 == Add(Add(sxy0, sxy1),
                        Mul(Mul(f01, Sub(Mul(n1, sx0), Mul(n0, sx1))), Sub(Mul(n1, sy0), Mul(n0, sy1))))
             q23 == Add(Add(sxy2, sxy3),
                        Mul(Mul(f23, Sub(Mul(n3, sx2), Mul(n2, sx3))), Sub(Mul(n3, sy2), Mul(n2, sy3))))
             sxy == Add(Add(q01, q23),
                        Mul(Mul(f, Sub(Mul(n23, sx01), Mul(n01, sx23))), Sub(Mul(n23, sy01), Mul(n01, sy23))))
         IN  <<sxx, syy, sxy>>
    ELSE LET sum_w0 == slice(sum_w)[1]    sum_w1 == slice(sum_w)[2]
             sum_x0 == slice(sum_x)[1]    sum_x1 == slice(sum_x)[2]
             sum_y0 == slice(sum_y)[1]    sum_y1 == slice(sum_y)[2]
             sum_xx0 == slice(sum_xx)[1]  sum_xx1 == slice(sum_xx)[2]
             sum_yy0 == slice(sum_yy)[1]  sum_yy1 == slice(sum_yy)[2]
             sum_xy0 == slice(sum_xy)[1]  sum_xy1 == slice(sum_xy)[2]
             c0 == combine_bivariate(sum_w0, sum_x0, sum_y0, sum_xx0, sum_yy0, sum_xy0)
             c1 == combine_bivariate(sum_w1, sum_x1, sum_y1, sum_xx1, sum_yy1, sum_xy1)
             n0 == reduce(sum_w0)
             n1 == reduce(sum_w1)
             sx0 == reduce(sum_x0)
             sx1 == reduce(sum_x1)
             sy0 == reduce(sum_y0)
             sy1 == reduce(sum_y1)
             f  == Div(One, Mul(Mul(n0, n1), Add(n0, n1)))
             sx == Sub(Mul(n0, sx1), Mul(n1, sx0))
             sy == Sub(Mul(n0, sy1), Mul(n1, sy0))
             sxx == Add(Add(c0[1], c1[1]), Mul(Mul(f, sx), sx))
             syy == Add(Add(c0[2], c1[2]), Mul(Mul(f, sy), sy))
             sxy == Add(Add(c0[3], c1[3]), Mul(Mul(f, sx), sy))
         IN  <<sxx, syy, sxy>>

---------------------------------------------------------------------------
(* univariate.hpp: univariate_accumulator<T>.  A scalar accumulator is a   *)
(* record of its four fields; a wide accumulator (T = eve::wide) is the    *)
(* sequence of its lanes, each lane a record of the same four fields,      *)
(* since every operation on wide values is lane-wise.                      *)

\* a faulty constructor (sensitivity check of C9): sum_w_old starts at 0
univariate_accumulator_zero_old ==
    [sum_w |-> Zero, sum_w_old |-> Zero, sum_x |-> Zero, sum_xx |-> Zero]

\* the default-constructed accumulator: sum_w{0}, sum_w_old{1}, sum_x{0}, sum_xx{0}
univariate_accumulator ==
    [sum_w |-> Zero, sum_w_old |-> One, sum_x |-> Zero, sum_xx |-> Zero]

univariate_load_state(sw, sx, sxx) ==
    [sum_w |-> sw, sum_w_old |-> sw, sum_x |-> sx, sum_xx |-> sxx]

\* a faulty update (sensitivity check of C1): dx is computed after sum_x
\* was advanced
univariate_update_late_dx(acc, x) ==
    LET sum_x  == Add(acc.sum_x, x)
        dx     == Sub(Mul(acc.sum_w, x), sum_x)
        sum_w  == Add(acc.sum_w, One)
        sum_xx == Add(acc.sum_xx, Div(Mul(dx, dx), Mul(sum_w, acc.sum_w_old)))
    IN  [sum_w |-> sum_w, sum_w_old |-> sum_w, sum_x |-> sum_x, sum_xx |-> sum_xx]

\* operator()(T x)
univariate_update(acc, x) ==
    LET dx     == Sub(Mul(acc.sum_w, x), acc.sum_x)
        sum_x  == Add(acc.sum_x, x)
        sum_w  == Add(acc.sum_w, One)
        sum_xx == Add(acc.sum_xx, Div(Mul(dx, dx), Mul(sum_w, acc.sum_w_old)))
    IN  [sum_w |-> sum_w, sum_w_old |-> sum_w, sum_x |-> sum_x, sum_xx |-> sum_xx]

\* a faulty weighted update (sensitivity check of C2): the divisor lacks
\* the factor w
univariate_update_w_unscaled(acc, x, w) ==
    LET xw     == Mul(x, w)
        dx     == Sub(Mul(acc.sum_w, xw), Mul(acc.sum_x, w))
        sum_x  == Add(acc.sum_x, xw)
        sum_w  == Add(acc.sum_w, w)
        sum_xx == Add(acc.sum_xx, Div(Mul(dx, dx), Mul(sum_w, acc.sum_w_old)))
    IN  [sum_w |-> sum_w, sum_w_old |-> sum_w, sum_x |-> sum_x, sum_xx |-> sum_xx]

\* a faulty weighted update (sensitivity check of C8): sum_x advances by
\* x, not by x * w
univariate_update_w_raw_sum(acc, x, w) ==
    LET xw     == Mul(x, w)
        dx     == Sub(Mul(acc.sum_w, xw), Mul(acc.sum_x, w))
        sum_x  == Add(acc.sum_x, x)
        sum_w  == Add(acc.sum_w, w)
        sum_xx == Add(acc.sum_xx,
                      Div(Mul(dx, dx), Mul(Mul(w, sum_w), acc.sum_w_old)))
    IN  [sum_w |-> sum_w, sum_w_old |-> sum_w, sum_x |-> sum_x, sum_xx |-> sum_xx]

\* operator()(T x, T w)
univariate_update_w(acc, x, w) ==
    LET xw     == Mul(x, w)
        dx     == Sub(Mul(acc.sum_w, xw), Mul(acc.sum_x, w))
        sum_x  == Add(acc.sum_x, xw)
        sum_w  == Add(acc.sum_w, w)
        sum_xx == Add(acc.sum_xx,
                      Div(Mul(dx, dx), Mul(Mul(w, sum_w), acc.sum_w_old)))
    IN  [sum_w |-> sum_w, sum_w_old |-> sum_w, sum_x |-> sum_x, sum_xx |-> sum_xx]

\* the wide accumulator of s lanes, default-constructed
wide_univariate_accumulator(s) == [l \in 1..s |-> univariate_accumulator]

wide_univariate_update(acc, x) ==
    [l \in 1..Len(acc) |-> univariate_update(acc[l], x[l])]

wide_univariate_update_w(acc, x, w) ==
    [l \in 1..Len(acc) |-> univariate_update_w(acc[l], x[l], w[l])]

\* stats() of a scalar accumulator: { sum_w, sum_x, sum_xx }
univariate_stats(acc) == <<acc.sum_w, acc.sum_x, acc.sum_xx>>

\* stats() of a wide accumulator: the reductions and the combine
wide_univariate_stats(acc) ==
    LET sum_w  == [l \in 1..Len(acc) |-> acc[l].sum_w]
        sum_x  == [l \in 1..Len(acc) |-> acc[l].sum_x]
        sum_xx == [l \in 1..Len(acc) |-> acc[l].sum_xx]
    IN  <<reduce(sum_w), reduce(sum_x), combine(sum_w, sum_x, sum_xx)>>

\* a faulty univariate_statistics (sensitivity check of C11): the sample
\* variance divides by the total weight, without Bessel's correction
univariate_statistics_no_bessel(st) ==
    LET sw == st[1]  sx == st[2]  sxx == st[3]
    IN  [count |-> sw, sum |-> sx, ssr |-> sxx,
         mean |-> Div(sx, sw),
         variance |-> Div(sxx, sw),
         sample_variance |-> Div(sxx, sw)]

\* univariate_statistics(accumulator), from the accumulator's stats()
univariate_statistics(st) ==
    LET sw == st[1]  sx == st[2]  sxx == st[3]
    IN  [count |-> sw, sum |-> sx, ssr |-> sxx,
         mean |-> Div(sx, sw),
         variance |-> Div(sxx, sw),
         sample_variance |-> Div(sxx, Sub(sw, One))]

---------------------------------------------------------------------------
(* bivariate.hpp: bivariate_accumulator<T>, scalar (a record) and wide (a  *)
(* sequence of lane records).                                              *)

bivariate_accumulator ==
    [sum_w |-> Zero, sum_w_old |-> One, sum_x |-> Zero, sum_y |-> Zero,
     sum_xx |-> Zero, sum_yy |-> Zero, sum_xy |-> Zero]

\* load_state(T sx, T sy, T sw, T sxx, T syy, T sxy)
bivariate_load_state(sx, sy, sw, sxx, syy, sxy) ==
    [sum_w |-> sw, sum_w_old |-> sw, sum_x |-> sx, sum_y |-> sy,
     sum_xx |-> sxx, sum_yy |-> syy, sum_xy |-> sxy]

\* a faulty update (sensitivity check of C12): dy is computed after sum_w
\* was advanced
bivariate_update_late_dy(acc, x, y) ==
    LET dx    == Sub(Mul(x, acc.sum_w), acc.sum_x)
        sum_w == Add(acc.sum_w, One)
        dy    == Sub(Mul(y, sum_w), acc.sum_y)
        f     == Div(One, Mul(sum_w, acc.sum_w_old))
    IN  [sum_w |-> sum_w, sum_w_old |-> sum_w,
         sum_x |-> Add(acc.sum_x, x),
         sum_y |-> Add(acc.sum_y, y),
         sum_xx |-> Add(acc.sum_xx, Mul(Mul(f, dx), dx)),
         sum_yy |-> Add(acc.sum_yy, Mul(Mul(f, dy), dy)),
         sum_xy |-> Add(acc.sum_xy, Mul(Mul(f, dx), dy))]

\* operator()(T x, T y)
bivariate_update(acc, x, y) ==
    LET dx    == Sub(Mul(x, acc.sum_w), acc.sum_x)
        dy    == Sub(Mul(y, acc.sum_w), acc.sum_y)
        sum_w == Add(acc.sum_w, One)
        f     == Div(One, Mul(sum_w, acc.sum_w_old))
    IN  [sum_w |-> sum_w, sum_w_old |-> sum_w,
         sum_x |-> Add(acc.sum_x, x),
         sum_y |-> Add(acc.sum_y, y),
         sum_xx |-> Add(acc.sum_xx, Mul(Mul(f, dx), dx)),
         sum_yy |-> Add(acc.sum_yy, Mul(Mul(f, dy), dy)),
         sum_xy |-> Add(acc.sum_xy, Mul(Mul(f, dx), dy))]

\* a faulty weighted update (sensitivity check of C14): the co-moment
\* advances by dx * dy, without the factor f
bivariate_update_w_unscaled_xy(acc, x, y, w) ==
    LET dx    == Sub(Mul(x, acc.sum_w), acc.sum_x)
        dy    == Sub(Mul(y, acc.sum_w), acc.sum_y)
        sum_w == Add(acc.sum_w, w)
        f     == Div(w, Mul(sum_w, acc.sum_w_old))
    IN  [sum_w |-> sum_w, sum_w_old |-> sum_w,
         sum_x |-> Add(acc.sum_x, Mul(x, w)),
         sum_y |-> Add(acc.sum_y, Mul(y, w)),
         sum_xx |-> Add(acc.sum_xx, Mul(Mul(f, dx), dx)),
         sum_yy |-> Add(acc.sum_yy, Mul(Mul(f, dy), dy)),
         sum_xy |-> Add(acc.sum_xy, Mul(dx, dy))]

\* operator()(T x, T y, T w)
bivariate_update_w(acc, x, y, w) ==
    LET dx    == Sub(Mul(x, acc.sum_w), acc.sum_x)
        dy    == Sub(Mul(y, acc.sum_w), acc.sum_y)
        sum_w == Add(acc.sum_w, w)
        f     == Div(w, Mul(sum_w, acc.sum_w_old))
    IN  [sum_w |-> sum_w, sum_w_old |-> sum_w,
         sum_x |-> Add(acc.sum_x, Mul(x, w)),
         sum_y |-> Add(acc.sum_y, Mul(y, w)),
         sum_xx |-> Add(acc.sum_xx, Mul(Mul(f, dx), dx)),
         sum_yy |-> Add(acc.sum_yy, Mul(Mul(f, dy), dy)),
         sum_xy |-> Add(acc.sum_xy, Mul(Mul(f, dx), dy))]

wide_bivariate_accumulator(s) == [l \in 1..s |-> bivariate_accumulator]

wide_bivariate_update(acc, x, y) ==
    [l \in 1..Len(acc) |-> bivariate_update(acc[l], x[l], y[l])]

wide_bivariate_update_w(acc, x, y, w) ==
    [l \in 1..Len(acc) |-> bivariate_update_w(acc[l], x[l], y[l], w[l])]

\* stats() of a scalar accumulator: { sum_w, sum_x, sum_y, sum_xx, sum_yy, sum_xy }
bivariate_stats(acc) ==
    <<acc.sum_w, acc.sum_x, acc.sum_y, acc.sum_xx, acc.sum_yy, acc.sum_xy>>

\* stats() of a wide accumulator
wide_bivariate_stats(acc) ==
    LET sum_w  == [l \in 1..Len(acc) |-> acc[l].sum_w]
        sum_x  == [l \in 1..Len(acc) |-> acc[l].sum_x]
        sum_y  == [l \in 1..Len(acc) |-> acc[l].sum_y]
        sum_xx == [l \in 1..Len(acc) |-> acc[l].sum_xx]
        sum_yy == [l \in 1..Len(acc) |-> acc[l].sum_yy]
        sum_xy == [l \in 1..Len(acc) |-> acc[l].sum_xy]
        c      == combine_bivariate(sum_w, sum_x, sum_y, sum_xx, sum_yy, sum_xy)
    IN  <<reduce(sum_w), reduce(sum_x), reduce(sum_y), c[1], c[2], c[3]>>

\* a faulty correlation (sensitivity check of C15): the quotient is
\* evaluated whatever sxx and syy are
correlation_of_unguarded(sxx, syy, sxy) ==
    <<Sign(sxy[1]), Div(Mul(sxy, sxy), Mul(sxx, syy))>>

\* The correlation sxy / sqrt(sxx * syy) is not a rational: it is kept as
\* the pair <<sign, square>> of the sign of sxy and the rational
\* sxy^2 / (sxx * syy), which determines it; the degenerate values 1 and 0
\* are <<1, One>> and <<0, Zero>>.
correlation_of(sxx, syy, sxy) ==
    IF ~(Less(Zero, sxx) /\ Less(Zero, syy))
    THEN (IF sxx = syy /\ ~IsNaN(sxx) THEN <<1, One>> ELSE <<0, Zero>>)
    ELSE <<Sign(sxy[1]), Div(Mul(sxy, sxy), Mul(sxx, syy))>>

\* bivariate_statistics(accumulator), from the accumulator's stats()
bivariate_statistics(st) ==
    LET sw == st[1]  sx == st[2]  sy == st[3]
        sxx == st[4]  syy == st[5]  sxy == st[6]
    IN  [count |-> sw, sum_x |-> sx, sum_y |-> sy,
         ssr_x |-> sxx, ssr_y |-> syy, sum_xy |-> sxy,
         mean_x |-> Div(sx, sw), mean_y |-> Div(sy, sw),
         variance_x |-> Div(sxx, sw), variance_y |-> Div(syy, sw),
         sample_variance_x |-> Div(sxx, Sub(sw, One)),
         sample_variance_y |-> Div(syy, Sub(sw, One)),
         correlation |-> correlation_of(sxx, syy, sxy),
         covariance |-> Div(sxy, sw),
         sample_covariance |-> Div(sxy, Sub(sw, One))]

---------------------------------------------------------------------------
(* State.                                                                  *)
(*                                                                         *)
(* One call of an accumulate driver of vstat.hpp:                          *)
(*   variant      which overload runs: "uni", "uniw" (weights), "binop",   *)
(*                "binopw" (binary op, weights), "bi", "biw" (weights)     *)
(*   s            the SIMD width wide::size()                              *)
(*   xs, ys, ws   the input sequences (ys, ws empty when unused)           *)
(*   fn           the caller's functors [op, f1, f2]                       *)
(*   pc           "call", "small" (the n < s loop), "bulk", "rem" (the     *)
(*                scalar remainder loop), "done"                           *)
(*   first        the offset of the iterators first1, first2, first3 from  *)
(*                the beginning of their sequences (they move together)    *)
(*   i            the counter of the bulk loop                             *)
(*   acc          the wide accumulator, <<>> until it is constructed       *)
(*   scalar_acc   the scalar accumulator, <<>> until it is constructed     *)
(*   result       the statistics struct returned, <<>> until the return    *)
(*   trace        the accumulator calls made so far, in order              *)
(***************************************************************************)
VARIABLES variant, s, xs, ys, ws, fn, pc, first, i, acc, scalar_acc, result,
          trace

drv == <<variant, s, xs, ys, ws, fn, pc, first, i, acc, scalar_acc, result,
         trace>>

(***************************************************************************)
(* One accumulator object used directly (specification SpecAcc):           *)
(*   kind     "uni" or "bi": univariate_accumulator, bivariate_accumulator *)
(*   lanes    1 for T a scalar, 4 or 8 for T an eve::wide                  *)
(*   obj      the accumulator (a record, or the sequence of its lanes)     *)
(*   ref      history: one scalar accumulator of the same kind that was    *)
(*            fed every sample given to obj so far, one by one             *)
(*   before   history: obj's stats() before the last call                  *)
(*   last     history: the last call and its arguments                     *)
(*   hist     history: the number of update calls, whether a zero weight   *)
(*            was passed, whether obj came out of load_state, whether      *)
(*            stats() was called ("yes": since the last update, "before":  *)
(*            before it), and a twin of obj that was given the same        *)
(*            updates and never asked for its stats()                      *)
(***************************************************************************)
VARIABLES kind, lanes, obj, ref, before, last, hist

accv == <<kind, lanes, obj, ref, before, last, hist>>

(***************************************************************************)
(* Partial accumulations of one sequence, merged pairwise (specification   *)
(* SpecMerge):                                                             *)
(*   blocks   the partial states <<n, s, q>> of the contiguous blocks the  *)
(*            sequence is cut into, in order                               *)
(*   whole    one scalar accumulator fed the whole sequence                *)
(*   phase    "fill" while samples arrive, "merge" once merging started    *)
(*   merged   history: the number of pairwise merges done                  *)
(***************************************************************************)
VARIABLES blocks, whole, phase, merged

mrgv == <<blocks, whole, phase, merged>>

vars == <<drv, accv, mrgv>>

\* the variables of a specification that is not running
DrvIdle ==
    /\ variant = "none" /\ s = 0 /\ xs = <<>> /\ ys = <<>> /\ ws = <<>>
    /\ fn = <<>> /\ pc = "idle" /\ first = 0 /\ i = 0 /\ acc = <<>>
    /\ scalar_acc = <<>> /\ result = <<>> /\ trace = <<>>

AccIdle ==
    /\ kind = "none" /\ lanes = 0 /\ obj = <<>> /\ ref = <<>>
    /\ before = <<>> /\ last = <<>> /\ hist = <<>>

MergeIdle == blocks = <<>> /\ whole = <<>> /\ phase = "idle" /\ merged = 0

---------------------------------------------------------------------------
(* Bounds of the driver's inputs.                                          *)

\* the longest input sequence
MaxN == 9

\* the SIMD widths: eve::wide<double> and eve::wide<float> on AVX2
Widths == {4, 8}

Variants == {"uni", "uniw", "binop", "binopw", "bi", "biw"}

\* input sequences are the prefixes of these, repeated cyclically
XBase == { <<1, 2, 3, 4>>, <<1, 1, 2, 6>>, <<2, 4, 5>>, <<3>> }

YBase == { <<2, 4, 3, 1>>, <<1>>, <<5, 0, -2>> }

WBase == { <<2, 4, 6, 8>>, <<2, 1, 3>>, <<1, 0, 2>> }

Input(base, n) == [k \in 1..n |-> Q(base[((k - 1) % Len(base)) + 1])]

\* the projections and binary operators a caller may pass
Projections == {"identity", "twice", "succ"}

BinaryOps == {"none", "multiplies", "sqdiff"}

Functors ==
    { [op |-> "none", f1 |-> "identity", f2 |-> "identity"],
      [op |-> "none", f1 |-> "twice", f2 |-> "succ"] }

BinaryFunctors ==
    { [op |-> "multiplies", f1 |-> "identity", f2 |-> "identity"],
      [op |-> "sqdiff", f1 |-> "twice", f2 |-> "succ"] }

\* std::invoke(f, a) for the projections of the model
invoke(f, a) ==
    CASE f = "identity" -> a
      [] f = "twice"    -> Mul(Q(2), a)
      [] f = "succ"     -> Add(a, One)

\* std::invoke(op, a, b) for the binary operators of the model
invoke2(op, a, b) ==
    CASE op = "multiplies" -> Mul(a, b)
      [] op = "sqdiff"     -> square(Sub(a, b))

IsWeighted(v) == v \in {"uniw", "binopw", "biw"}

IsBinary(v) == v \in {"binop", "binopw"}

IsBivariate(v) == v \in {"bi", "biw"}

---------------------------------------------------------------------------
(* vstat.hpp: the accumulate drivers.                                      *)

\* auto const n { std::distance(first1, last1) }
n == Len(xs)

\* auto const m = n - n % s
m == n - (n % s)

\* a faulty pairing (sensitivity check of C18): the projections f1 and f2
\* are applied to the wrong streams
element_swapped(k) ==
    IF IsBinary(variant)
    THEN invoke2(fn.op, invoke(fn.f2, xs[k + 1]), invoke(fn.f1, ys[k + 1]))
    ELSE invoke(fn.f1, xs[k + 1])

\* the value the scalar loops feed for the element at offset k:
\* f(*first), or the lambda f(a, b) = op(f1(a), f2(b)) of the binary-op variants
element(k) ==
    IF IsBinary(variant)
    THEN invoke2(fn.op, invoke(fn.f1, xs[k + 1]), invoke(fn.f2, ys[k + 1]))
    ELSE invoke(fn.f1, xs[k + 1])

\* the second value of the bivariate variants: f2(*first2)
element2(k) == invoke(fn.f2, ys[k + 1])

\* detail::load<wide>(first1, f), std::transform into x, wide(first3, first3 + s):
\* the s lanes loaded from offset k on
load(k) == [l \in 1..s |-> element(k + l - 1)]

load2(k) == [l \in 1..s |-> element2(k + l - 1)]

load_weights(k) == [l \in 1..s |-> ws[k + l]]

\* the default-constructed scalar accumulator of the variant
new_scalar_acc ==
    IF IsBivariate(variant) THEN bivariate_accumulator ELSE univariate_accumulator

\* the default-constructed wide accumulator of the variant
new_wide_acc ==
    IF IsBivariate(variant) THEN wide_bivariate_accumulator(s)
    ELSE wide_univariate_accumulator(s)

\* one call scalar_acc(...) of a scalar loop, for the element at offset k
scalar_call(a, k) ==
    CASE variant \in {"uni", "binop"}   -> univariate_update(a, element(k))
      [] variant \in {"uniw", "binopw"} -> univariate_update_w(a, element(k), ws[k + 1])
      [] variant = "bi"  -> bivariate_update(a, element(k), element2(k))
      [] variant = "biw" -> bivariate_update_w(a, element(k), element2(k), ws[k + 1])

\* one call acc(...) of the bulk loop, for the chunk at offset k
wide_call(a, k) ==
    CASE variant \in {"uni", "binop"}   -> wide_univariate_update(a, load(k))
      [] variant \in {"uniw", "binopw"} -> wide_univariate_update_w(a, load(k), load_weights(k))
      [] variant = "bi"  -> wide_bivariate_update(a, load(k), load2(k))
      [] variant = "biw" -> wide_bivariate_update_w(a, load(k), load2(k), load_weights(k))

\* how far one iteration of the n < s loop moves the iterators: the loop
\* header increments each of them, and the weighted bivariate overload
\* increments them once more in the call's arguments (*first1++, ...)
small_stride == IF variant = "biw" THEN 2 ELSE 1

\* a faulty hand-off (sensitivity check of C13): the bivariate state is
\* passed to load_state in the order stats() returns it
handoff_misordered(a) ==
    IF IsBivariate(variant)
    THEN LET st == wide_bivariate_stats(a)
         IN  bivariate_load_state(st[1], st[2], st[3], st[4], st[5], st[6])
    ELSE LET st == wide_univariate_stats(a)
         IN  univariate_load_state(st[1], st[2], st[3])

\* acc.stats() followed by load_state
handoff(a) ==
    IF IsBivariate(variant)
    THEN LET st == wide_bivariate_stats(a)
         IN  bivariate_load_state(st[2], st[3], st[1], st[4], st[5], st[6])
    ELSE LET st == wide_univariate_stats(a)
         IN  univariate_load_state(st[1], st[2], st[3])

\* a statistics constructor that reports 0 where a quotient is not finite
scalar_statistics_guarded(a) ==
    LET r == IF IsBivariate(variant) THEN bivariate_statistics(bivariate_stats(a))
             ELSE univariate_statistics(univariate_stats(a))
    IN  [f \in DOMAIN r |->
            IF f # "correlation" /\ ~IsFinite(r[f]) THEN Zero ELSE r[f]]

\* univariate_statistics(scalar_acc) / bivariate_statistics(scalar_acc)
scalar_statistics(a) ==
    IF IsBivariate(variant) THEN bivariate_statistics(bivariate_stats(a))
    ELSE univariate_statistics(univariate_stats(a))

\* univariate_statistics(acc) / bivariate_statistics(acc)
wide_statistics(a) ==
    IF IsBivariate(variant) THEN bivariate_statistics(wide_bivariate_stats(a))
    ELSE univariate_statistics(wide_univariate_stats(a))

DrvInit ==
    /\ variant \in Variants
    /\ s \in Widths
    /\ \E len \in 0..MaxN :
          /\ xs \in {Input(b, len) : b \in XBase}
          /\ ys \in IF IsBinary(variant) \/ IsBivariate(variant)
                    THEN {Input(b, len) : b \in YBase} ELSE {<<>>}
          /\ ws \in IF IsWeighted(variant)
                    THEN {Input(b, len) : b \in WBase} ELSE {<<>>}
    /\ fn \in IF IsBinary(variant) THEN BinaryFunctors ELSE Functors
    /\ pc = "call"
    /\ first = 0
    /\ i = 0
    /\ acc = <<>>
    /\ scalar_acc = <<>>
    /\ result = <<>>
    /\ trace = <<>>
    /\ AccIdle
    /\ MergeIdle

\* entry: if (n < s) { scalar accumulator } else { wide accumulator }
Enter ==
    /\ pc = "call"
    /\ IF n < s
       THEN /\ scalar_acc' = new_scalar_acc
            /\ pc' = "small"
            /\ UNCHANGED acc
       ELSE /\ acc' = new_wide_acc
            /\ pc' = "bulk"
            /\ UNCHANGED scalar_acc
    /\ UNCHANGED <<variant, s, xs, ys, ws, fn, first, i, result, trace, accv, mrgv>>

\* one iteration of the n < s loop: for (; first1 < last1; ++first1, ...)
SmallStep ==
    /\ pc = "small"
    /\ first < n
    /\ scalar_acc' = scalar_call(scalar_acc, first)
    /\ first' = first + small_stride
    /\ trace' = Append(trace, [call |-> "scalar", at |-> first])
    /\ UNCHANGED <<variant, s, xs, ys, ws, fn, pc, i, acc, result, accv, mrgv>>

\* the end of the n < s loop: return statistics(scalar_acc)
SmallReturn ==
    /\ pc = "small"
    /\ ~(first < n)
    /\ result' = scalar_statistics(scalar_acc)
    /\ pc' = "done"
    /\ UNCHANGED <<variant, s, xs, ys, ws, fn, first, i, acc, scalar_acc, trace, accv, mrgv>>

\* a faulty bulk loop (sensitivity check of C6): the iterator is not
\* advanced, every chunk is read at the same place
BulkStep_no_advance ==
    /\ pc = "bulk"
    /\ i < m
    /\ acc' = wide_call(acc, first)
    /\ first' = first
    /\ i' = i + s
    /\ trace' = Append(trace, [call |-> "wide", at |-> first])
    /\ UNCHANGED <<variant, s, xs, ys, ws, fn, pc, scalar_acc, result, accv, mrgv>>

\* one iteration of the bulk loop: for (size_t i = 0; i < m; i += s)
BulkStep ==
    /\ pc = "bulk"
    /\ i < m
    /\ acc' = wide_call(acc, first)
    /\ first' = first + s
    /\ i' = i + s
    /\ trace' = Append(trace, [call |-> "wide", at |-> first])
    /\ UNCHANGED <<variant, s, xs, ys, ws, fn, pc, scalar_acc, result, accv, mrgv>>

\* after the bulk loop, if (m < n): stats() and load_state
Handoff ==
    /\ pc = "bulk"
    /\ ~(i < m)
    /\ m < n
    /\ scalar_acc' = handoff(acc)
    /\ pc' = "rem"
    /\ trace' = Append(trace, [call |-> "load_state", at |-> first])
    /\ UNCHANGED <<variant, s, xs, ys, ws, fn, first, i, acc, result, accv, mrgv>>

\* after the bulk loop, no remainder: return statistics(acc)
BulkReturn ==
    /\ pc = "bulk"
    /\ ~(i < m)
    /\ ~(m < n)
    /\ result' = wide_statistics(acc)
    /\ pc' = "done"
    /\ UNCHANGED <<variant, s, xs, ys, ws, fn, first, i, acc, scalar_acc, trace, accv, mrgv>>

\* one iteration of the remainder loop
RemStep ==
    /\ pc = "rem"
    /\ first < n
    /\ scalar_acc' = scalar_call(scalar_acc, first)
    /\ first' = first + 1
    /\ trace' = Append(trace, [call |-> "scalar", at |-> first])
    /\ UNCHANGED <<variant, s, xs, ys, ws, fn, pc, i, acc, result, accv, mrgv>>

\* the end of the remainder loop: return statistics(scalar_acc)
RemReturn ==
    /\ pc = "rem"
    /\ ~(first < n)
    /\ result' = scalar_statistics(scalar_acc)
    /\ pc' = "done"
    /\ UNCHANGED <<variant, s, xs, ys, ws, fn, first, i, acc, scalar_acc, trace, accv, mrgv>>

DrvNext ==
    \/ Enter
    \/ SmallStep
    \/ SmallReturn
    \/ BulkStep
    \/ Handoff
    \/ BulkReturn
    \/ RemStep
    \/ RemReturn

SpecDrv == DrvInit /\ [][DrvNext]_vars

\* The drivers run to completion on the calling thread: a call that can
\* take a step takes it. The caller is idle until it calls accumulate with
\* arguments of its choice; the values of the elements have no part in the
\* control flow, so one sequence of each length is drawn.
DrvLiveInit == DrvIdle /\ AccIdle /\ MergeIdle

\* the caller calls one of the overloads: a state DrvInit starts from
Call ==
    /\ pc = "idle"
    /\ variant' \in Variants
    /\ s' \in Widths
    /\ \E len \in 0..MaxN :
          /\ xs' = Input(<<1, 2, 3, 4>>, len)
          /\ ys' = IF IsBinary(variant') \/ IsBivariate(variant')
                   THEN Input(<<2, 4, 3, 1>>, len) ELSE <<>>
          /\ ws' = IF IsWeighted(variant') THEN Input(<<2, 1, 3>>, len) ELSE <<>>
    /\ fn' \in IF IsBinary(variant') THEN BinaryFunctors ELSE Functors
    /\ pc' = "call"
    /\ UNCHANGED <<first, i, acc, scalar_acc, result, trace, accv, mrgv>>

DrvLiveNext ==
    \/ Call
    \/ DrvNext

\* the control variables of a call, and the steps of DrvLiveNext as they
\* act on them: every step of DrvLiveNext changes pc, first or i in one of
\* these ways, and one of them is possible whenever a step is
ctl == <<pc, first, i>>

Advance ==
    \/ pc = "idle" /\ pc' = "call" /\ UNCHANGED <<first, i>>
    \/ pc = "call" /\ pc' = (IF n < s THEN "small" ELSE "bulk")
                   /\ UNCHANGED <<first, i>>
    \/ pc = "small" /\ first < n /\ first' = first + small_stride
                    /\ UNCHANGED <<pc, i>>
    \/ pc = "small" /\ ~(first < n) /\ pc' = "done" /\ UNCHANGED <<first, i>>
    \/ pc = "bulk" /\ i < m /\ first' = first + s /\ i' = i + s /\ UNCHANGED pc
    \/ pc = "bulk" /\ ~(i < m) /\ pc' = (IF m < n THEN "rem" ELSE "done")
                   /\ UNCHANGED <<first, i>>
    \/ pc = "rem" /\ first < n /\ first' = first + 1 /\ UNCHANGED <<pc, i>>
    \/ pc = "rem" /\ ~(first < n) /\ pc' = "done" /\ UNCHANGED <<first, i>>

SpecDrvLive == DrvLiveInit /\ [][DrvLiveNext]_vars /\ WF_ctl(Advance)

---------------------------------------------------------------------------
(* An accumulator object used directly through its interface: update,      *)
(* weighted update, stats and load_state (specification SpecAcc).          *)

\* the most update calls made on one object
MaxUpdates == 2

\* the samples passed to a scalar accumulator
SVals == {Q(-1), Q(2), Q(3)}

SPairs == {<<Q(-1), Q(2)>>, <<Q(2), Q(2)>>, <<Q(3), Q(0)>>}

SWeights == {Q(0), Q(1), Q(3)}

\* the chunks passed to a wide accumulator of l lanes
ChunkX(l) == {<<Input(b, l)>> : b \in XBase}

ChunkPairs(l) ==
    { <<Input(<<1, 1, 2, 6>>, l), Input(<<2, 4, 3, 1>>, l)>>,
      <<Input(<<1, 2, 3, 4>>, l), Input(<<1>>, l)>>,
      <<Input(<<2, 4, 5>>, l), Input(<<5, 0, -2>>, l)>> }

ChunkW(l) == {Input(b, l) : b \in WBase}

\* the arguments (x) or (x, y) an update of the object can be given
UpdateArgs ==
    IF lanes = 1
    THEN (IF kind = "uni" THEN {<<x>> : x \in SVals} ELSE SPairs)
    ELSE (IF kind = "uni" THEN ChunkX(lanes) ELSE ChunkPairs(lanes))

\* the weights a weighted update of the object can be given
WeightArgs == IF lanes = 1 THEN SWeights ELSE ChunkW(lanes)

\* a default-constructed accumulator of kind k with l lanes
new_acc(k, l) ==
    IF k = "uni"
    THEN (IF l = 1 THEN univariate_accumulator ELSE wide_univariate_accumulator(l))
    ELSE (IF l = 1 THEN bivariate_accumulator ELSE wide_bivariate_accumulator(l))

\* o(x) or o(x, y): the unweighted update of an accumulator of kind k, l lanes
call(k, l, o, a) ==
    IF k = "uni"
    THEN (IF l = 1 THEN univariate_update(o, a[1]) ELSE wide_univariate_update(o, a[1]))
    ELSE (IF l = 1 THEN bivariate_update(o, a[1], a[2])
          ELSE wide_bivariate_update(o, a[1], a[2]))

\* o(x, w) or o(x, y, w): the weighted update
call_w(k, l, o, a, w) ==
    IF k = "uni"
    THEN (IF l = 1 THEN univariate_update_w(o, a[1], w)
          ELSE wide_univariate_update_w(o, a[1], w))
    ELSE (IF l = 1 THEN bivariate_update_w(o, a[1], a[2], w)
          ELSE wide_bivariate_update_w(o, a[1], a[2], w))

\* o.stats()
stats(k, l, o) ==
    IF k = "uni"
    THEN (IF l = 1 THEN univariate_stats(o) ELSE wide_univariate_stats(o))
    ELSE (IF l = 1 THEN bivariate_stats(o) ELSE wide_bivariate_stats(o))

\* load_state applied to the tuple st that stats() returned
load_state(k, st) ==
    IF k = "uni"
    THEN univariate_load_state(st[1], st[2], st[3])
    ELSE bivariate_load_state(st[2], st[3], st[1], st[4], st[5], st[6])

\* the history accumulator r fed the samples of the arguments a (and
\* weights w, <<>> when unweighted) one by one: lanes j .. l of a chunk
RECURSIVE feed_ref(_, _, _, _, _, _)
feed_ref(k, l, r, a, w, j) ==
    IF j = 0 THEN r
    ELSE LET p  == feed_ref(k, l, r, a, w, j - 1)
             aj == IF l = 1 THEN a ELSE [c \in 1..Len(a) |-> a[c][j]]
             wj == IF l = 1 THEN w ELSE w[j]
         IN  IF w = <<>> THEN call(k, 1, p, aj) ELSE call_w(k, 1, p, aj, wj)

HasZero(l, w) == IF l = 1 THEN w = Zero ELSE \E j \in 1..l : w[j] = Zero

AccInit ==
    /\ kind \in {"uni", "bi"}
    /\ lanes \in {1} \cup Widths
    /\ obj = new_acc(kind, lanes)
    /\ ref = new_acc(kind, 1)
    /\ before = <<>>
    /\ last = [op |-> "construct", a |-> <<>>, w |-> <<>>]
    /\ hist = [count |-> 0, zero |-> FALSE, loaded |-> "no",
               queried |-> "no", twin |-> new_acc(kind, lanes)]
    /\ DrvIdle
    /\ MergeIdle

\* obj(x) or obj(x, y): one unweighted update (a sample, or a chunk)
Update ==
    /\ hist.count < MaxUpdates
    /\ \E a \in UpdateArgs :
          /\ obj' = call(kind, lanes, obj, a)
          /\ ref' = feed_ref(kind, lanes, ref, a, <<>>, lanes)
          /\ last' = [op |-> "update", a |-> a, w |-> <<>>]
          /\ hist' = [hist EXCEPT !.count = @ + 1,
                                  !.queried = IF @ = "no" THEN "no" ELSE "before",
                                  !.twin = call(kind, lanes, @, a)]
    /\ before' = stats(kind, lanes, obj)
    /\ UNCHANGED <<kind, lanes, drv, mrgv>>

\* obj(x, w) or obj(x, y, w): one weighted update (a sample, or a chunk)
UpdateW ==
    /\ hist.count < MaxUpdates
    /\ \E a \in UpdateArgs, w \in WeightArgs :
          /\ obj' = call_w(kind, lanes, obj, a, w)
          /\ ref' = feed_ref(kind, lanes, ref, a, w, lanes)
          /\ last' = [op |-> "update_w", a |-> a, w |-> w]
          /\ hist' = [hist EXCEPT !.count = @ + 1,
                                  !.zero = @ \/ HasZero(lanes, w),
                                  !.queried = IF @ = "no" THEN "no" ELSE "before",
                                  !.twin = call_w(kind, lanes, @, a, w)]
    /\ before' = stats(kind, lanes, obj)
    /\ UNCHANGED <<kind, lanes, drv, mrgv>>

\* load_state(obj.stats()): obj is replaced by the scalar accumulator
\* loaded from its reduced state
LoadState ==
    /\ last.op # "load_state"
    /\ obj' = load_state(kind, stats(kind, lanes, obj))
    /\ lanes' = 1
    /\ before' = stats(kind, lanes, obj)
    /\ last' = [op |-> "load_state", a |-> <<>>, w |-> <<>>]
    /\ hist' = [hist EXCEPT !.loaded =
                   IF hist.count = 0 \/ @ = "empty" THEN "empty" ELSE "filled",
                            !.twin = load_state(kind, stats(kind, lanes, @))]
    /\ UNCHANGED <<kind, ref, drv, mrgv>>

AccNext ==
    \/ Update
    \/ UpdateW
    \/ LoadState

SpecAcc == AccInit /\ [][AccNext]_vars

---------------------------------------------------------------------------
(* One accumulator object that is asked for its stats() between updates    *)
(* (specification SpecQry).                                                *)

\* a faulty stats() (sensitivity check of C16): the query drains the
\* accumulator
Stats_draining ==
    /\ obj' = new_acc(kind, lanes)
    /\ before' = stats(kind, lanes, obj)
    /\ hist' = [hist EXCEPT !.queried = "yes"]
    /\ UNCHANGED <<kind, lanes, ref, last, drv, mrgv>>

\* obj.stats(): a const member function, the fields are read (and passed
\* to reduce and combine by value), the tuple is returned
Stats ==
    /\ obj' = obj
    /\ before' = stats(kind, lanes, obj)
    /\ hist' = [hist EXCEPT !.queried = "yes"]
    /\ UNCHANGED <<kind, lanes, ref, last, drv, mrgv>>

QryNext ==
    \/ Update
    \/ UpdateW
    \/ Stats

SpecQry == AccInit /\ [][QryNext]_vars

---------------------------------------------------------------------------
(* vstat.hpp, namespace metrics: r2_score, mean_squared_error and          *)
(* mean_absolute_percentage_error, each unweighted and weighted            *)
(* (specification SpecMet). The driver variables                           *)
(* are used: xs is y_true, ys is y_pred, ws the weights; acc and           *)
(* scalar_acc are records of the accumulators of the call (e: squared      *)
(* errors, y: the target, r2_score only); result is the returned double.   *)

Metrics == {"r2", "r2w", "mse", "msew", "mape", "mapew"}

IsR2(v) == v \in {"r2", "r2w"}

IsMSE(v) == v \in {"mse", "msew"}

IsWeightedMetric(v) == v \in {"r2w", "msew", "mapew"}

\* the weight ranges of the metrics: those of the drivers, and all ones
MetWBase == WBase \cup { <<1>> }

\* univariate_accumulator<T>::load_state(std::tuple<T, T, T>): the tuple
\* of stats(), passed on as (sum_w, sum_x, sum_xx)
univariate_load_state_tuple(st) == univariate_load_state(st[1], st[2], st[3])

\* eve::sqr(y_true - y_pred), lane-wise, for the chunk at offset k
sqr_error_chunk(k) == [l \in 1..s |-> square(Sub(xs[k + l], ys[k + l]))]

\* eve::abs
abs(a) == <<Abs(a[1]), a[2]>>

\* std::numeric_limits<T>::epsilon() for T = float (2^-23; 2^-52 for double)
epsilon == <<1, 8388608>>

\* eve::max(eps, v)
max_eps(v) == IF Less(epsilon, v) THEN v ELSE epsilon

\* the term an unweighted mean_absolute_percentage_error call accumulates:
\* eve::abs(y_true - y_pred) / eve::max(eps, eve::abs(y_true))
abs_percentage_error(y_true, y_pred) ==
    Div(abs(Sub(y_true, y_pred)), max_eps(abs(y_true)))

\* the term the weighted overload accumulates: eve::abs(y_true - y_pred)
abs_error(y_true, y_pred) == abs(Sub(y_true, y_pred))

\* the term a call of the metric v accumulates for one pair
metric_error(v, y_true, y_pred) ==
    CASE v = "mape"  -> abs_percentage_error(y_true, y_pred)
      [] v = "mapew" -> abs_error(y_true, y_pred)
      [] OTHER       -> square(Sub(y_true, y_pred))

\* the same, lane-wise, for the chunk at offset k
error_chunk(k) ==
    IF IsR2(variant) \/ IsMSE(variant) THEN sqr_error_chunk(k)
    ELSE [l \in 1..s |-> metric_error(variant, xs[k + l], ys[k + l])]

\* tss < std::numeric_limits<double>::epsilon(): every positive value of
\* the model is a quotient of integers below 2^31, hence above epsilon
\* (2^-52); the values below epsilon are 0 and the negative ones
below_epsilon(t) == t = Zero \/ Less(t, Zero)

\* the returned double: std::numeric_limits<double>::lowest(), or a value
lowest == [lowest |-> TRUE, value |-> Zero]

double(v) == [lowest |-> FALSE, value |-> v]

MetInit ==
    /\ variant \in Metrics
    /\ s \in Widths
    /\ \E len \in 0..MaxN :
          /\ xs \in {Input(b, len) : b \in XBase}
          /\ ys \in {Input(b, len) : b \in YBase}
          /\ ws \in IF IsWeightedMetric(variant)
                    THEN {Input(b, len) : b \in MetWBase} ELSE {<<>>}
    /\ fn = <<>>
    /\ pc = "call"
    /\ first = 0
    /\ i = 0
    /\ acc = <<>>
    /\ scalar_acc = <<>>
    /\ result = <<>>
    /\ trace = <<>>
    /\ AccIdle
    /\ MergeIdle

\* univariate_accumulator<wide> wx, wy (r2_score) / we (mean_squared_error)
MetEnter ==
    /\ pc = "call"
    /\ acc' = IF IsR2(variant)
              THEN [e |-> wide_univariate_accumulator(s),
                    y |-> wide_univariate_accumulator(s)]
              ELSE [e |-> wide_univariate_accumulator(s)]
    /\ pc' = "bulk"
    /\ UNCHANGED <<variant, s, xs, ys, ws, fn, first, i, scalar_acc, result,
                   trace, accv, mrgv>>

\* one iteration of for (auto i = 0; i < m; i += s)
MetBulkStep ==
    /\ pc = "bulk"
    /\ i < m
    /\ LET y_true == SubSeq(xs, first + 1, first + s)
           err    == error_chunk(first)
           weight == SubSeq(ws, first + 1, first + s)
           e2 == IF IsWeightedMetric(variant)
                 THEN wide_univariate_update_w(acc.e, err, weight)
                 ELSE wide_univariate_update(acc.e, err)
       IN  acc' = IF IsR2(variant)
                  THEN [e |-> e2,
                        y |-> IF IsWeightedMetric(variant)
                              THEN wide_univariate_update_w(acc.y, y_true, weight)
                              ELSE wide_univariate_update(acc.y, y_true)]
                  ELSE [e |-> e2]
    /\ first' = first + s
    /\ i' = i + s
    /\ trace' = Append(trace, [call |-> "wide", at |-> first])
    /\ UNCHANGED <<variant, s, xs, ys, ws, fn, pc, scalar_acc, result, accv, mrgv>>

\* after the bulk loop, whatever m and n are: load_state(wx.stats()), ...
MetHandoff ==
    /\ pc = "bulk"
    /\ ~(i < m)
    /\ scalar_acc' =
          IF IsR2(variant)
          THEN [e |-> univariate_load_state_tuple(wide_univariate_stats(acc.e)),
                y |-> univariate_load_state_tuple(wide_univariate_stats(acc.y))]
          ELSE [e |-> univariate_load_state_tuple(wide_univariate_stats(acc.e))]
    /\ pc' = "rem"
    /\ trace' = Append(trace, [call |-> "load_state", at |-> first])
    /\ UNCHANGED <<variant, s, xs, ys, ws, fn, first, i, acc, result, accv, mrgv>>

\* one iteration of for (; first1 < last1; ++first1, ++first2 ...)
MetRemStep ==
    /\ pc = "rem"
    /\ first < n
    /\ LET err == metric_error(variant, xs[first + 1], ys[first + 1])
           e2  == IF IsWeightedMetric(variant)
                  THEN univariate_update_w(scalar_acc.e, err, ws[first + 1])
                  ELSE univariate_update(scalar_acc.e, err)
       IN  scalar_acc' =
              IF IsR2(variant)
              THEN [e |-> e2,
                    y |-> IF IsWeightedMetric(variant)
                          THEN univariate_update_w(scalar_acc.y, xs[first + 1],
                                                   ws[first + 1])
                          ELSE univariate_update(scalar_acc.y, xs[first + 1])]
              ELSE [e |-> e2]
    /\ first' = first + 1
    /\ trace' = Append(trace, [call |-> "scalar", at |-> first])
    /\ UNCHANGED <<variant, s, xs, ys, ws, fn, pc, i, acc, result, accv, mrgv>>

\* the return statement
MetReturn ==
    /\ pc = "rem"
    /\ ~(first < n)
    /\ result' =
          IF IsR2(variant)
          THEN LET rss == univariate_statistics(univariate_stats(scalar_acc.e)).sum
                   tss == univariate_statistics(univariate_stats(scalar_acc.y)).ssr
               IN  IF below_epsilon(tss) THEN lowest
                   ELSE double(Sub(One, Div(rss, tss)))
          ELSE double(univariate_statistics(univariate_stats(scalar_acc.e)).mean)
    /\ pc' = "done"
    /\ UNCHANGED <<variant, s, xs, ys, ws, fn, first, i, acc, scalar_acc, trace,
                   accv, mrgv>>

MetNext ==
    \/ MetEnter
    \/ MetBulkStep
    \/ MetHandoff
    \/ MetRemStep
    \/ MetReturn

SpecMet == MetInit /\ [][MetNext]_vars

---------------------------------------------------------------------------
(* A scalar accumulator that is reloaded from the tuple of its own stats() *)
(* between updates (specification SpecTuple). hist.twin is the accumulator *)
(* that receives the same updates and is never reloaded.                   *)

\* bivariate_accumulator<T>::load_state(std::tuple<T, T, T, T, T, T>): the
\* structured binding names the elements sx, sy, sw, sxx, syy, sxy in the
\* order they have in the tuple
bivariate_load_state_tuple(st) ==
    bivariate_load_state(st[1], st[2], st[3], st[4], st[5], st[6])

\* load_state(std::tuple) of the kind k
load_state_tuple(k, st) ==
    IF k = "uni" THEN univariate_load_state_tuple(st)
    ELSE bivariate_load_state_tuple(st)

TupleInit == AccInit /\ lanes = 1

\* obj = load_state(obj.stats())
LoadStateTuple ==
    /\ last.op # "load_state"
    /\ obj' = load_state_tuple(kind, stats(kind, lanes, obj))
    /\ before' = stats(kind, lanes, obj)
    /\ last' = [op |-> "load_state", a |-> <<>>, w |-> <<>>]
    /\ hist' = [hist EXCEPT !.loaded =
                   IF hist.count = 0 \/ @ = "empty" THEN "empty" ELSE "filled"]
    /\ UNCHANGED <<kind, lanes, ref, drv, mrgv>>

TupleNext ==
    \/ Update
    \/ UpdateW
    \/ LoadStateTuple

SpecTuple == TupleInit /\ [][TupleNext]_vars

---------------------------------------------------------------------------
(* combine called on the lanes of a wide accumulator (specification        *)
(* SpecCmb). The accumulator variables are used: ref holds, lane by lane,  *)
(* the weighted samples <<x, y, w>> the lane has accumulated, obj is the   *)
(* wide accumulator whose lanes hold the sums of these samples, hist.same  *)
(* tells whether the y stream is the x stream, and before is the value     *)
(* combine returned.                                                       *)

\* the samples of one lane: none, one, two of weight 1, two of unlike weight
CmbSamples ==
    { <<>>,
      << <<1, 2, 1>> >>,
      << <<2, 4, 1>>, <<4, 3, 1>> >>,
      << <<3, 1, 2>>, <<1, 1, 1>> >> }

\* the lanes of one half of a width-8 accumulator
CmbHalves == {h \in [1..4 -> CmbSamples] : h[3] = h[1] /\ h[4] = h[2]}

\* the y of a sample: its x when the two streams are the same stream
sample_y(smp, same) == Q(IF same THEN smp[1] ELSE smp[2])

\* the state of one lane after the weighted updates with its samples
RECURSIVE lane_state(_, _, _, _)
lane_state(k, samples, same, j) ==
    IF j = 0
    THEN (IF k = "uni" THEN univariate_accumulator ELSE bivariate_accumulator)
    ELSE LET p   == lane_state(k, samples, same, j - 1)
             smp == samples[j]
         IN  IF k = "uni"
             THEN univariate_update_w(p, Q(smp[1]), Q(smp[3]))
             ELSE bivariate_update_w(p, Q(smp[1]), sample_y(smp, same), Q(smp[3]))

\* the wide values sum_w, sum_x, ... of a wide accumulator
field(o, f) == [l \in 1..Len(o) |-> o[l][f]]

\* combine applied to the wide values of the accumulator o of kind k
combine_call(k, o) ==
    IF k = "uni"
    THEN <<combine(field(o, "sum_w"), field(o, "sum_x"), field(o, "sum_xx"))>>
    ELSE combine_bivariate(field(o, "sum_w"), field(o, "sum_x"), field(o, "sum_y"),
                           field(o, "sum_xx"), field(o, "sum_yy"), field(o, "sum_xy"))

CmbInit ==
    /\ kind \in {"uni", "bi"}
    /\ lanes \in Widths
    /\ ref \in IF lanes = 4 THEN [1..4 -> CmbSamples]
                ELSE {lo \o hi : lo \in CmbHalves, hi \in CmbHalves}
    /\ hist \in IF kind = "uni" THEN {[same |-> FALSE]}
                 ELSE {[same |-> b] : b \in BOOLEAN}
    /\ obj = [l \in 1..lanes |-> lane_state(kind, ref[l], hist.same, Len(ref[l]))]
    /\ before = <<>>
    /\ last = [op |-> "construct"]
    /\ DrvIdle
    /\ MergeIdle

\* combine(sum_w, sum_x, sum_xx) / combine(sum_w, sum_x, sum_y, sum_xx,
\* sum_yy, sum_xy): the arguments are passed by value
Combine ==
    /\ last.op = "construct"
    /\ before' = combine_call(kind, obj)
    /\ obj' = obj
    /\ last' = [op |-> "combine"]
    /\ UNCHANGED <<kind, lanes, ref, hist, drv, mrgv>>

CmbNext == Combine

SpecCmb == CmbInit /\ [][CmbNext]_vars

---------------------------------------------------------------------------
(* variance.hpp: VarianceCalculator (specification SpecVar). The           *)
(* accumulator variables are used: obj is the calculator, ref a calculator *)
(* that is given the same samples one Add(x) at a time, before the         *)
(* calculator as it was before the last call, last the last call.          *)

\* VarianceCalculator(): _sum_x, _sum_xx, _sum_w
VarianceCalculator == [sum_x |-> Zero, sum_xx |-> Zero, sum_w |-> Zero]

\* void Add(T x)
vc_Add(c, x) ==
    IF Leq(c.sum_w, Zero)
    THEN [sum_w |-> One, sum_x |-> x, sum_xx |-> Zero]
    ELSE LET d     == Sub(Mul(c.sum_w, x), c.sum_x)
             sum_w == Add(c.sum_w, One)
         IN  [sum_w |-> sum_w,
              sum_x |-> Add(c.sum_x, x),
              sum_xx |-> Add(c.sum_xx,
                             Div(Mul(d, d), Mul(sum_w, Sub(sum_w, One))))]

\* for (size_t i = 0; i < n; ++i) { Add(*(x + i)); }, from element j on
RECURSIVE vc_AddEach(_, _, _)
vc_AddEach(c, x, j) ==
    IF j > Len(x) THEN c ELSE vc_AddEach(vc_Add(c, x[j]), x, j + 1)

\* one iteration of the vector loop, for the chunk xx
vc_lane_step(v, xx) ==
    [l \in 1..Len(v) |->
        LET dx    == Sub(Mul(v[l].sum_w, xx[l]), v[l].sum_x)
            sum_w == Add(v[l].sum_w, One)
        IN  [sum_w |-> sum_w,
             sum_x |-> Add(v[l].sum_x, xx[l]),
             sum_xx |-> Add(v[l].sum_xx,
                            Div(Mul(dx, dx), Mul(sum_w, Sub(sum_w, One))))]]

\* for (size_t i = s; i < m; i += s), from the offset k on
RECURSIVE vc_vector_loop(_, _, _, _)
vc_vector_loop(v, x, k, mm) ==
    IF ~(k < mm) THEN v
    ELSE vc_vector_loop(vc_lane_step(v, SubSeq(x, k + 1, k + Len(v))),
                        x, k + Len(v), mm)

\* void Add(T const* x, size_t n) with vec of the given width
RECURSIVE vc_AddN(_, _, _)
vc_AddN(c, x, width) ==
    IF Len(x) < width THEN vc_AddEach(c, x, 1)
    ELSE LET mm == Len(x) - (Len(x) % width)
             v0 == [l \in 1..width |->
                       [sum_w |-> One, sum_x |-> x[l], sum_xx |-> Zero]]
             v  == vc_vector_loop(v0, x, width, mm)
             c1 == [sum_w |-> reduce(field(v, "sum_w")),
                    sum_x |-> reduce(field(v, "sum_x")),
                    sum_xx |-> combine(field(v, "sum_w"), field(v, "sum_x"),
                                       field(v, "sum_xx"))]
         IN  IF mm < Len(x)
             THEN vc_AddN(c1, SubSeq(x, mm + 1, Len(x)), width)
             ELSE c1

VarInit ==
    /\ kind = "var"
    /\ lanes = 0
    /\ obj = VarianceCalculator
    /\ ref = VarianceCalculator
    /\ before = VarianceCalculator
    /\ last = [op |-> "construct", x |-> <<>>]
    /\ hist = [count |-> 0]
    /\ DrvIdle
    /\ MergeIdle

\* vc.Add(x)
VcAdd ==
    /\ hist.count < MaxUpdates
    /\ \E x \in SVals :
          /\ obj' = vc_Add(obj, x)
          /\ ref' = vc_Add(ref, x)
          /\ last' = [op |-> "Add", x |-> <<x>>]
    /\ before' = obj
    /\ hist' = [hist EXCEPT !.count = @ + 1]
    /\ UNCHANGED <<kind, lanes, drv, mrgv>>

\* vc.Add(x, n), T = double (Vec4d) or float (Vec8f)
VcAddN ==
    /\ hist.count < MaxUpdates
    /\ \E width \in Widths, len \in 0..MaxN, b \in XBase :
          /\ obj' = vc_AddN(obj, Input(b, len), width)
          /\ ref' = vc_AddEach(ref, Input(b, len), 1)
          /\ last' = [op |-> "AddN", x |-> Input(b, len)]
          /\ lanes' = width
    /\ before' = obj
    /\ hist' = [hist EXCEPT !.count = @ + 1]
    /\ UNCHANGED <<kind, drv, mrgv>>

\* vc.Reset()
VcReset ==
    /\ hist.count < MaxUpdates
    /\ last.op # "Reset"
    /\ obj' = VarianceCalculator
    /\ ref' = VarianceCalculator
    /\ before' = obj
    /\ last' = [op |-> "Reset", x |-> <<>>]
    /\ UNCHANGED <<kind, lanes, hist, drv, mrgv>>

VarNext ==
    \/ VcAdd
    \/ VcAddN
    \/ VcReset

SpecVar == VarInit /\ [][VarNext]_vars

---------------------------------------------------------------------------
(* Partial accumulations merged pairwise (specification SpecMerge): a      *)
(* sequence of weighted samples is cut into contiguous blocks, every block *)
(* is accumulated by a scalar accumulator of its own, and the partial      *)
(* states are then merged two neighbours at a time, in any order, as the   *)
(* recursive branch of combine merges the two halves of the lanes.         *)

\* the largest number of samples of the sequence
MaxSamples == 4

\* the largest number of blocks the sequence is cut into
MaxBlocks == 3

\* the samples <<x, w>> a sequence is made of (positive weights)
MergeSamples == {<<Q(-1), Q(1)>>, <<Q(2), Q(1)>>, <<Q(3), Q(1)>>,
                 <<Q(2), Q(3)>>}

RECURSIVE block_samples(_)
\* the number of update calls made on a sequence of block accumulators
block_samples(b) ==
    IF b = <<>> THEN 0 ELSE b[1].calls + block_samples(Tail(b))

\* the merge of two neighbouring partial states a = <<n0, s0, q0>> and
\* b = <<n1, s1, q1>>: weights and sums are added (reduce), the residuals
\* are merged
merge_state(a, b) ==
    <<Add(a[1], b[1]), Add(a[2], b[2]),
      merge(a[1], a[2], a[3], b[1], b[2], b[3])>>

new_block == [acc |-> univariate_accumulator, calls |-> 0]

MergeInit ==
    /\ blocks = <<new_block>>
    /\ whole = univariate_accumulator
    /\ phase = "fill"
    /\ merged = 0
    /\ DrvIdle
    /\ AccIdle

\* the next sample of the sequence goes to the current (last) block and to
\* the single-pass accumulator
MSample ==
    /\ phase = "fill"
    /\ block_samples(blocks) < MaxSamples
    /\ \E p \in MergeSamples :
          /\ blocks' = [blocks EXCEPT ![Len(blocks)] =
                           [acc |-> univariate_update_w(@.acc, p[1], p[2]),
                            calls |-> @.calls + 1]]
          /\ whole' = univariate_update_w(whole, p[1], p[2])
    /\ UNCHANGED <<phase, merged, drv, accv>>

\* the sequence is cut here: a new block starts
NewBlock ==
    /\ phase = "fill"
    /\ Len(blocks) < MaxBlocks
    /\ blocks[Len(blocks)].calls >= 1
    /\ blocks' = Append(blocks, new_block)
    /\ UNCHANGED <<whole, phase, merged, drv, accv>>

\* the sequence ends: every block reports its stats()
Seal ==
    /\ phase = "fill"
    /\ blocks[Len(blocks)].calls >= 1
    /\ blocks' = [k \in 1..Len(blocks) |-> univariate_stats(blocks[k].acc)]
    /\ phase' = "merge"
    /\ UNCHANGED <<whole, merged, drv, accv>>

\* two neighbouring partial states are merged into one
MergePair ==
    /\ phase = "merge"
    /\ Len(blocks) >= 2
    /\ \E k \in 1..(Len(blocks) - 1) :
          blocks' = SubSeq(blocks, 1, k - 1)
                       \o <<merge_state(blocks[k], blocks[k + 1])>>
                       \o SubSeq(blocks, k + 2, Len(blocks))
    /\ merged' = merged + 1
    /\ UNCHANGED <<whole, phase, drv, accv>>

MergeNext ==
    \/ MSample
    \/ NewBlock
    \/ Seal
    \/ MergePair

SpecMerge == MergeInit /\ [][MergeNext]_vars

---------------------------------------------------------------------------
(* Reference values of a driver call, computed in two passes from the      *)
(* inputs by the textbook definitions (no accumulator is involved).        *)

RECURSIVE SumSeq(_)
SumSeq(v) == IF v = <<>> THEN Zero ELSE Add(Head(v), SumSeq(Tail(v)))

\* the weight of the element at offset k (1 in the unweighted variants)
weight(k) == IF IsWeighted(variant) THEN ws[k + 1] ELSE One

RefW == [k \in 1..n |-> weight(k - 1)]

RefZ == [k \in 1..n |-> element(k - 1)]

RefCount == SumSeq(RefW)

RefSum == SumSeq([k \in 1..n |-> Mul(RefW[k], RefZ[k])])

RefMean == Div(RefSum, RefCount)

RefSSR == SumSeq([k \in 1..n |-> Mul(RefW[k], square(Sub(RefZ[k], RefMean)))])

AllPositive(v) == \A k \in 1..Len(v) : Less(Zero, v[k])

\* a scalar accumulator fed the value v, unweighted, c more times (the
\* test on prev makes TLC evaluate prev before the update uses it, which
\* keeps its evaluation stack shallow; it is always true)
RECURSIVE FeedRepeated(_, _, _)
FeedRepeated(a, v, c) ==
    IF c = 0 THEN a
    ELSE LET prev == FeedRepeated(a, v, c - 1)
         IN  IF prev.sum_w = prev.sum_w THEN univariate_update(prev, v) ELSE prev

\* a scalar accumulator fed, unweighted, zs[1] cs[1] times, ..., zs[k]
\* cs[k] times (cs: positive integers): the first k values of zs, each
\* repeated as many times as its weight
RECURSIVE FeedExpanded(_, _, _)
FeedExpanded(zs, cs, k) ==
    IF k = 0 THEN univariate_accumulator
    ELSE FeedRepeated(FeedExpanded(zs, cs, k - 1), zs[k], cs[k][1])

\* the calls a driver must make for n >= s: the chunks at 0, s, ..., m - s,
\* then, if m < n, load_state and the elements m .. n - 1 one at a time
ExpectedTrace ==
    [k \in 1..(m \div s) |-> [call |-> "wide", at |-> (k - 1) * s]]
    \o (IF m < n
        THEN <<[call |-> "load_state", at |-> m]>>
             \o [k \in 1..(n - m) |-> [call |-> "scalar", at |-> m + k - 1]]
        ELSE <<>>)

\* the calls a driver must make for n < s: the elements 0 .. n - 1 in order
ExpectedSmallTrace == [k \in 1..n |-> [call |-> "scalar", at |-> k - 1]]

IsPrefix(p, q) == Len(p) <= Len(q) /\ p = SubSeq(q, 1, Len(p))

---------------------------------------------------------------------------
(* Claims about the drivers (specification SpecDrv).                       *)

\* C1: univariate::accumulate over an unweighted sequence of n >= 1
\* (projected) values returns count = n, sum = the sum of the values and
\* ssr = the sum of the squared deviations from the mean, whichever of the
\* three paths (n < s, n a multiple of s, remainder) the call takes.
C1_UnweightedAccumulate ==
    (pc = "done" /\ variant = "uni" /\ n >= 1) =>
        /\ result.count = Q(n)
        /\ result.sum = RefSum
        /\ result.ssr = RefSSR

\* C1 witness: the README example x = [1,2,3,4] run at width 4 (one chunk,
\* reduced by combine) has returned count 4, sum 10, ssr 5.
C1_Witness ==
    /\ pc = "done" /\ variant = "uni" /\ s = 4 /\ fn.f1 = "identity"
    /\ xs = <<Q(1), Q(2), Q(3), Q(4)>>
    /\ trace = <<[call |-> "wide", at |-> 0]>>
    /\ result.count = Q(4) /\ result.sum = Q(10) /\ result.ssr = Q(5)

\* C2: univariate::accumulate with positive weights returns count = the
\* sum of the weights, sum = the weighted sum, ssr = the weighted sum of
\* squared deviations from mean = sum / count, pairing x_i with w_i.
C2_WeightedAccumulate ==
    (pc = "done" /\ variant = "uniw" /\ n >= 1 /\ AllPositive(ws)) =>
        /\ result.count = RefCount
        /\ result.sum = RefSum
        /\ result.mean = RefMean
        /\ result.ssr = RefSSR
        /\ result.variance = Div(RefSSR, RefCount)

\* C2 witness: the README example x = [1,2,3,4], w = [2,4,6,8] at width 4
\* has returned count 20, sum 60, ssr 20, mean 3, variance 1.
C2_Witness ==
    /\ pc = "done" /\ variant = "uniw" /\ s = 4 /\ fn.f1 = "identity"
    /\ xs = <<Q(1), Q(2), Q(3), Q(4)>>
    /\ ws = <<Q(2), Q(4), Q(6), Q(8)>>
    /\ result.count = Q(20) /\ result.sum = Q(60) /\ result.ssr = Q(20)
    /\ result.mean = Q(3) /\ result.variance = Q(1)

\* C4: in every accumulate variant, when n < s no wide accumulator is used
\* and each of the n elements is fed exactly once, in index order, to a
\* scalar accumulator, so that count is n (the sum of the n weights).
C4_SmallInputScalarOnly ==
    (pc = "done" /\ n < s) =>
        /\ acc = <<>>
        /\ trace = ExpectedSmallTrace
        /\ result.count = RefCount

\* C6: when n >= s the driver feeds the chunks at 0, s, ..., m - s to the
\* wide accumulator in that order and, only after them and only if m < n,
\* calls stats() and load_state and feeds the elements m .. n - 1 one at a
\* time: at every point the calls made are a prefix of that sequence, and
\* at the return they are all of it.
C6_BulkThenRemainder ==
    (n >= s) =>
        /\ IsPrefix(trace, ExpectedTrace)
        /\ (pc = "done" => trace = ExpectedTrace)
        /\ \A k \in 1..Len(trace) :
              trace[k].at + (IF trace[k].call = "wide" THEN s ELSE 1) <= n
                 \/ trace[k].call = "load_state"

\* C6 witness: a weighted bivariate call with n = 9 at width 4 has
\* returned after two chunks, the hand-off and one remainder element.
C6_Witness ==
    /\ pc = "done" /\ variant = "biw" /\ s = 4 /\ n = 9
    /\ trace = <<[call |-> "wide", at |-> 0], [call |-> "wide", at |-> 4],
                 [call |-> "load_state", at |-> 8], [call |-> "scalar", at |-> 8]>>

\* C8: accumulating the values with positive integer weights gives the
\* same mean and variance as accumulating, unweighted, the sequence in
\* which each value is repeated as many times as its weight.
C8_WeightedEqualsRepeated ==
    (pc = "done" /\ variant = "uniw" /\ n >= 1 /\ AllPositive(ws)) =>
        LET rep == univariate_statistics(univariate_stats(
                       FeedExpanded(RefZ, ws, n)))
        IN  /\ result.mean = rep.mean
            /\ result.variance = rep.variance

\* C8 witness: x = [2,4,5] with w = [2,1,3] has returned the mean 23/6 and
\* the variance 65/36 of [2,2,4,5,5,5].
C8_Witness ==
    /\ pc = "done" /\ variant = "uniw" /\ fn.f1 = "identity"
    /\ xs = <<Q(2), Q(4), Q(5)>> /\ ws = <<Q(2), Q(1), Q(3)>>
    /\ result.mean = <<23, 6>>
    /\ result.variance = <<65, 36>>

---------------------------------------------------------------------------
(* Claims about one accumulator object (specification SpecAcc).            *)

AllFinite(st) == \A k \in 1..Len(st) : IsFinite(st[k])

\* C3: a weighted update with weight 0 of a scalar univariate or bivariate
\* accumulator, in any state including the empty one, is a no-op: every
\* sum the accumulator reports is what it was before the call, and none of
\* them is NaN or infinite.
C3_ZeroWeightNoOp ==
    (lanes = 1 /\ last.op = "update_w" /\ last.w = Zero) =>
        /\ stats(kind, lanes, obj) = before
        /\ AllFinite(stats(kind, lanes, obj))

\* C5: stats() of a wide accumulator whose lanes have each been given
\* k >= 1 samples (of positive weight) returns the sums that one scalar
\* accumulator reaches when it is given the same samples one by one.
C5_WideStatsEqualSequential ==
    (lanes > 1 /\ hist.count >= 1 /\ ~hist.zero) =>
        stats(kind, lanes, obj) = stats(kind, 1, ref)

\* C5 witness: a width-8 univariate accumulator was given two chunks and
\* its stats() has a positive residual sum of squares.
C5_Witness ==
    /\ lanes = 8 /\ kind = "uni" /\ hist.count = 2 /\ ~hist.zero
    /\ Less(Zero, stats(kind, lanes, obj)[3])
    /\ stats(kind, lanes, obj) = stats(kind, 1, ref)

\* C7: load_state builds an accumulator with exactly the given sums and
\* with the previous sum_w equal to the loaded sum_w, and, for the reduced
\* state of any accumulator (one that received no samples included),
\* load_state followed by any updates (of positive weight) reports what a
\* single scalar accumulator given all the samples reports.
C7_LoadStateContinues ==
    /\ (last.op = "load_state" /\ hist.count >= 1 /\ ~hist.zero) =>
          /\ stats(kind, lanes, obj) = before
          /\ obj.sum_w_old = obj.sum_w
    /\ (hist.loaded # "no" /\ hist.count >= 1 /\ ~hist.zero) =>
          stats(kind, lanes, obj) = stats(kind, 1, ref)

\* C9: after exactly one sample x (and y), unweighted or of weight w > 0,
\* was added to a default-constructed scalar accumulator, no division by
\* zero has happened (every sum is finite) and count = w, sum = w * x,
\* mean = x, every residual sum is 0 and the variance is 0.
C9_SingleSample ==
    (lanes = 1 /\ hist.count = 1 /\ hist.loaded = "no" /\ ~hist.zero) =>
        LET w  == IF last.op = "update" THEN One ELSE last.w
            st == stats(kind, lanes, obj)
        IN  /\ AllFinite(st)
            /\ st[1] = w
            /\ st[2] = Mul(w, last.a[1])
            /\ Div(st[2], st[1]) = last.a[1]
            /\ IF kind = "uni"
               THEN /\ st[3] = Zero
                    /\ univariate_statistics(st).mean = last.a[1]
                    /\ univariate_statistics(st).variance = Zero
               ELSE /\ st[3] = Mul(w, last.a[2])
                    /\ st[4] = Zero /\ st[5] = Zero /\ st[6] = Zero
                    /\ bivariate_statistics(st).mean_x = last.a[1]
                    /\ bivariate_statistics(st).mean_y = last.a[2]
                    /\ bivariate_statistics(st).variance_x = Zero
                    /\ bivariate_statistics(st).variance_y = Zero

\* C9 witness: a bivariate accumulator was given the one sample (3, 0)
\* with weight 3 and reports count 3, sum_x 9 and mean_x 3.
C9_Witness ==
    /\ lanes = 1 /\ kind = "bi" /\ hist.count = 1 /\ hist.loaded = "no"
    /\ last.op = "update_w" /\ last.w = Q(3) /\ last.a = <<Q(3), Q(0)>>
    /\ obj.sum_w = Q(3) /\ obj.sum_x = Q(9) /\ obj.sum_xx = Zero
    /\ bivariate_statistics(bivariate_stats(obj)).mean_x = Q(3)

---------------------------------------------------------------------------
(* Claims about the pairwise merge (specification SpecMerge).              *)

\* C10: the pairwise merge is associative - for three neighbouring partial
\* states A, B, C of positive weight, merging (A, B) and then C gives the
\* same <<sum_w, sum_x, sum_xx>> as merging A with the merge of (B, C) -
\* and, however a sequence is cut into contiguous blocks and in whatever
\* order neighbours are merged, the one state that is left equals the
\* stats() of the single-pass scalar accumulation of the whole sequence.
C10_MergeAssociative ==
    (phase = "merge") =>
        /\ \A k \in 1..(Len(blocks) - 2) :
              merge_state(merge_state(blocks[k], blocks[k + 1]), blocks[k + 2])
                 = merge_state(blocks[k],
                               merge_state(blocks[k + 1], blocks[k + 2]))
        /\ (Len(blocks) = 1) => blocks[1] = univariate_stats(whole)

\* C10 witness: the samples (-1,1), (2,3), (3,1), (2,1) were cut into three
\* blocks and two merges left the single-pass state <<6, 10, 28/3>>.
C10_Witness ==
    /\ phase = "merge" /\ merged = 2 /\ Len(blocks) = 1
    /\ blocks[1] = <<Q(6), Q(10), <<28, 3>>>>
    /\ blocks[1] = univariate_stats(whole)

---------------------------------------------------------------------------
(* Claims about the statistics a driver call returns (specification        *)
(* SpecDrv).                                                               *)

\* stats() of the accumulator the statistics were built from: the scalar
\* accumulator if the call ended in a scalar loop, else the wide one
final_stats ==
    IF scalar_acc # <<>>
    THEN (IF IsBivariate(variant) THEN bivariate_stats(scalar_acc)
          ELSE univariate_stats(scalar_acc))
    ELSE (IF IsBivariate(variant) THEN wide_bivariate_stats(acc)
          ELSE wide_univariate_stats(acc))

\* C11: the univariate_statistics built from an accumulator whose stats()
\* is (sw, sx, sxx) with sw > 1 has count = sw, sum = sx, ssr = sxx,
\* mean = sx / sw, variance = sxx / sw and sample_variance = sxx / (sw - 1);
\* for finite sums, mean * sw = sx, variance * sw = sxx and
\* sample_variance * (sw - 1) = sxx.
C11_UnivariateStatistics ==
    (pc = "done" /\ ~IsBivariate(variant) /\ Less(One, final_stats[1])) =>
        LET sw == final_stats[1]  sx == final_stats[2]  sxx == final_stats[3]
        IN  /\ result.count = sw /\ result.sum = sx /\ result.ssr = sxx
            /\ result.mean = Div(sx, sw)
            /\ result.variance = Div(sxx, sw)
            /\ result.sample_variance = Div(sxx, Sub(sw, One))
            /\ AllFinite(final_stats) =>
                  /\ Mul(result.mean, sw) = sx
                  /\ Mul(result.variance, sw) = sxx
                  /\ Mul(result.sample_variance, Sub(sw, One)) = sxx

\* C11 witness: x = [1, 2, 3, 4] gives mean 5/2, variance 5/4 and sample
\* variance 5/3.
C11_Witness ==
    /\ pc = "done" /\ variant = "uni" /\ fn.f1 = "identity"
    /\ xs = <<Q(1), Q(2), Q(3), Q(4)>>
    /\ final_stats = <<Q(4), Q(10), Q(5)>>
    /\ result.mean = <<5, 2>> /\ result.variance = <<5, 4>>
    /\ result.sample_variance = <<5, 3>>

\* the second stream of a bivariate call and its two-pass references
RefZ2 == [k \in 1..n |-> element2(k - 1)]

RefSum2 == SumSeq([k \in 1..n |-> Mul(RefW[k], RefZ2[k])])

RefMean2 == Div(RefSum2, RefCount)

RefSSR2 == SumSeq([k \in 1..n |-> Mul(RefW[k], square(Sub(RefZ2[k], RefMean2)))])

RefSXY ==
    SumSeq([k \in 1..n |-> Mul(RefW[k], Mul(Sub(RefZ[k], RefMean),
                                            Sub(RefZ2[k], RefMean2)))])

\* C12: bivariate::accumulate over paired sequences of length n >= 1
\* returns sum_xy = sum of (x_i - mean_x)(y_i - mean_y), covariance =
\* sum_xy / count, sample_covariance = sum_xy / (count - 1) and, when ssr_x
\* and ssr_y are positive, correlation = sum_xy / sqrt(ssr_x * ssr_y) (its
\* sign is the sign of sum_xy and its square is sum_xy^2 / (ssr_x * ssr_y)).
C12_BivariateAccumulate ==
    (pc = "done" /\ variant = "bi" /\ n >= 1) =>
        /\ result.count = Q(n)
        /\ result.ssr_x = RefSSR /\ result.ssr_y = RefSSR2
        /\ result.sum_xy = RefSXY
        /\ result.covariance = Div(RefSXY, Q(n))
        /\ Mul(result.covariance, Q(n)) = RefSXY
        /\ result.sample_covariance = Div(RefSXY, Q(n - 1))
        /\ (n > 1) => Mul(result.sample_covariance, Q(n - 1)) = RefSXY
        /\ (Less(Zero, RefSSR) /\ Less(Zero, RefSSR2)) =>
              /\ result.correlation[1] = Sign(RefSXY[1])
              /\ Mul(result.correlation[2], Mul(RefSSR, RefSSR2))
                    = square(RefSXY)

\* C12 witness: x = [1, 1, 2, 6], y = [2, 4, 3, 1] gives ssr_x = 17,
\* ssr_y = 5, sum_xy = -7, covariance = -7/4 and a negative correlation
\* of square 49/85.
C12_Witness ==
    /\ pc = "done" /\ variant = "bi" /\ fn.f1 = "identity"
    /\ xs = <<Q(1), Q(1), Q(2), Q(6)>> /\ ys = <<Q(2), Q(4), Q(3), Q(1)>>
    /\ result.ssr_x = Q(17) /\ result.ssr_y = Q(5) /\ result.sum_xy = Q(-7)
    /\ result.covariance = <<-7, 4>>
    /\ result.correlation = <<-1, <<49, 85>>>>

\* univariate::accumulate as a function of its (projected) input z, its
\* weights w (<<>> when unweighted) and the width: the scalar loop over
\* the elements j .. Len(z), the bulk loop over the chunks from offset k
\* on, and the whole call
RECURSIVE scalar_loop(_, _, _, _)
scalar_loop(a, z, w, j) ==
    IF j > Len(z) THEN a
    ELSE scalar_loop(IF w = <<>> THEN univariate_update(a, z[j])
                     ELSE univariate_update_w(a, z[j], w[j]), z, w, j + 1)

RECURSIVE bulk_loop(_, _, _, _, _)
bulk_loop(a, z, w, k, width) ==
    IF k + width > Len(z) THEN a
    ELSE bulk_loop(IF w = <<>>
                   THEN wide_univariate_update(a, SubSeq(z, k + 1, k + width))
                   ELSE wide_univariate_update_w(a, SubSeq(z, k + 1, k + width),
                                                 SubSeq(w, k + 1, k + width)),
                   z, w, k + width, width)

univariate_accumulate(z, w, width) ==
    LET len == Len(z)
        mm  == len - (len % width)
    IN  IF len < width
        THEN univariate_statistics(univariate_stats(
                 scalar_loop(univariate_accumulator, z, w, 1)))
        ELSE LET wacc == bulk_loop(wide_univariate_accumulator(width), z, w, 0, width)
                 st   == wide_univariate_stats(wacc)
             IN  IF mm < len
                 THEN univariate_statistics(univariate_stats(
                          scalar_loop(univariate_load_state(st[1], st[2], st[3]),
                                      z, w, mm + 1)))
                 ELSE univariate_statistics(st)

\* C13: the count, sum_x and mean_x of a bivariate accumulation equal the
\* count, sum and mean of the univariate accumulation over x alone, and
\* sum_y and mean_y those of the univariate accumulation over y alone.
C13_BivariateMarginals ==
    (pc = "done" /\ variant = "bi" /\ n >= 1) =>
        LET ux == univariate_accumulate(RefZ, <<>>, s)
            uy == univariate_accumulate(RefZ2, <<>>, s)
        IN  /\ result.count = ux.count /\ result.count = uy.count
            /\ result.sum_x = ux.sum /\ result.mean_x = ux.mean
            /\ result.sum_y = uy.sum /\ result.mean_y = uy.mean

\* C13 witness: a bivariate call of 9 pairs at width 4 (two chunks and one
\* remaining pair) whose two streams have different sums.
C13_Witness ==
    /\ pc = "done" /\ variant = "bi" /\ s = 4 /\ n = 9
    /\ result.sum_x # result.sum_y
    /\ result.sum_x = univariate_accumulate(RefZ, <<>>, s).sum
    /\ result.mean_y = univariate_accumulate(RefZ2, <<>>, s).mean

---------------------------------------------------------------------------
(* Claims about the states of one accumulator (specification SpecAcc).     *)

\* C14: in every state a bivariate accumulator reaches by updates of
\* positive weight, scalar or reduced by combine, sum_xy^2 <= sum_xx *
\* sum_yy, so that when sum_xx > 0 and sum_yy > 0 the correlation lies in
\* [-1, 1] (its square is at most 1).
C14_CorrelationBounded ==
    (kind = "bi" /\ hist.count >= 1 /\ ~hist.zero /\ hist.loaded # "empty") =>
        LET st == stats(kind, lanes, obj)
            r  == bivariate_statistics(st).correlation
        IN  /\ Leq(square(st[6]), Mul(st[4], st[5]))
            /\ (Less(Zero, st[4]) /\ Less(Zero, st[5])) =>
                  /\ r[1] \in {-1, 0, 1}
                  /\ Leq(r[2], One)
                  /\ Mul(r[2], Mul(st[4], st[5])) = square(st[6])

\* C14 witness: a width-4 bivariate accumulator after a weighted chunk
\* with sum_xx > 0, sum_yy > 0 and a correlation strictly between -1 and 0.
C14_Witness ==
    /\ kind = "bi" /\ lanes = 4 /\ hist.count >= 1 /\ ~hist.zero
    /\ last.op = "update_w"
    /\ LET st == stats(kind, lanes, obj)
           r  == bivariate_statistics(st).correlation
       IN  /\ Less(Zero, st[4]) /\ Less(Zero, st[5])
           /\ r[1] = -1 /\ Less(r[2], One)

---------------------------------------------------------------------------
(* More claims about the statistics a driver call returns (SpecDrv).       *)

\* C15: when the accumulated sum_xx and sum_yy are both 0 (both sequences
\* constant) bivariate_statistics reports correlation 1; when exactly one
\* of them is 0 and the other is positive it reports correlation 0; in
\* both cases the quotient sum_xy / sqrt(sum_xx * sum_yy) is not evaluated
\* (the value is the finite constant, not the NaN of 0 / 0).
C15_DegenerateCorrelation ==
    (pc = "done" /\ IsBivariate(variant)) =>
        LET sxx == final_stats[4]  syy == final_stats[5]
        IN  /\ (sxx = Zero /\ syy = Zero) => result.correlation = <<1, One>>
            /\ (sxx = Zero /\ Less(Zero, syy)) => result.correlation = <<0, Zero>>
            /\ (Less(Zero, sxx) /\ syy = Zero) => result.correlation = <<0, Zero>>

\* C15 witness: nine pairs whose x values are all 3 and whose y values
\* vary: ssr_x = 0 < ssr_y and the correlation is 0.
C15_Witness ==
    /\ pc = "done" /\ variant = "bi" /\ n = 9
    /\ \A k \in 1..n : RefZ[k] = RefZ[1]
    /\ result.ssr_x = Zero /\ Less(Zero, result.ssr_y)
    /\ result.correlation = <<0, Zero>>

---------------------------------------------------------------------------
(* Claims about stats() called between updates (specification SpecQry).    *)

\* C16: stats() does not change the accumulator: after any number of
\* stats() calls at any points of an accumulation the accumulator (scalar
\* or wide, univariate or bivariate) is field for field what it would be
\* had stats() never been called, so later updates act alike and later
\* stats() calls return alike.
C16_StatsPure ==
    (hist.queried # "no") =>
        /\ obj = hist.twin
        /\ stats(kind, lanes, obj) = stats(kind, lanes, hist.twin)
        /\ (hist.queried = "yes") => before = stats(kind, lanes, hist.twin)

\* C16 witness: a width-8 bivariate accumulator was updated, asked for its
\* stats(), and updated again; its sums are finite and sum_xx > 0.
C16_Witness ==
    /\ kind = "bi" /\ lanes = 8 /\ hist.count = 2 /\ hist.queried = "before"
    /\ AllFinite(stats(kind, lanes, obj))
    /\ Less(Zero, stats(kind, lanes, obj)[4])
    /\ obj = hist.twin

---------------------------------------------------------------------------
(* More claims about the states of one accumulator (SpecAcc).              *)

\* C17: in every state an accumulator reaches from empty by updates with
\* non-negative weights, and in every combine result over such lanes,
\* sum_xx >= 0 (and sum_yy >= 0 for a bivariate one), and sum_w > 0 once a
\* sample of nonzero weight was added.
C17_NonNegative ==
    (hist.loaded = "no") =>
        LET st == stats(kind, lanes, obj)
        IN  /\ IF kind = "uni" THEN Leq(Zero, st[3])
               ELSE Leq(Zero, st[4]) /\ Leq(Zero, st[5])
            /\ Less(Zero, ref.sum_w) => Less(Zero, st[1])

---------------------------------------------------------------------------
(* Claims about the binary-op driver (specification SpecDrv).              *)

\* the sequence z_i = op(f1(x_i), f2(y_i)) of a binary-op call
BinopZ ==
    [k \in 1..n |-> invoke2(fn.op, invoke(fn.f1, xs[k]), invoke(fn.f2, ys[k]))]

\* C18: accumulate(x, y, op, f1, f2) returns the statistics of the
\* univariate accumulation of z_i = op(f1(x_i), f2(y_i)), elements paired
\* at equal indices in the bulk and in the remainder phase; with op the
\* multiplication (and identity projections) its sum is the sum of the
\* weighted accumulation of x with weights y.
C18_BinaryOpAccumulate ==
    (pc = "done" /\ variant = "binop" /\ n >= 1) =>
        /\ result = univariate_accumulate(BinopZ, <<>>, s)
        /\ result.count = Q(n)
        /\ result.sum = SumSeq(BinopZ)
        /\ (fn.op = "multiplies" /\ fn.f1 = "identity" /\ fn.f2 = "identity") =>
              result.sum = univariate_accumulate(xs, ys, s).sum

\* C18 witness: nine pairs at width 4 (two chunks and a remainder) under
\* the squared difference of the projected values 2 * x and y + 1.
C18_Witness ==
    /\ pc = "done" /\ variant = "binop" /\ s = 4 /\ n = 9
    /\ fn.op = "sqdiff" /\ fn.f1 = "twice" /\ fn.f2 = "succ"
    /\ result.sum = SumSeq([k \in 1..n |->
                       square(Sub(Mul(Q(2), xs[k]), Add(ys[k], One)))])
    /\ Less(Zero, result.ssr)

---------------------------------------------------------------------------
(* Claims about the regression metrics (specification SpecMet).            *)

\* two-pass references of a metrics call
MetW == [k \in 1..n |-> IF IsWeightedMetric(variant) THEN ws[k] ELSE One]

MetRSS == SumSeq([k \in 1..n |-> Mul(MetW[k], square(Sub(xs[k], ys[k])))])

MetMeanY == Div(SumSeq([k \in 1..n |-> Mul(MetW[k], xs[k])]), SumSeq(MetW))

MetTSS == SumSeq([k \in 1..n |-> Mul(MetW[k], square(Sub(xs[k], MetMeanY)))])

\* C19: r2_score and its weighted overload return 1 - RSS / TSS with
\* RSS = sum of w_i (y_i - y_pred_i)^2 and TSS = sum of w_i (y_i - mean_y)^2
\* for every n >= 1 (n < s and n with a remainder included), and lowest()
\* when TSS < epsilon.
C19_R2Score ==
    (pc = "done" /\ IsR2(variant) /\ n >= 1) =>
        IF below_epsilon(MetTSS)
        THEN result = lowest
        ELSE result = double(Sub(One, Div(MetRSS, MetTSS)))

\* C20: mean_squared_error returns (sum of w_i (y_i - y_pred_i)^2) / (sum
\* of w_i), w_i = 1 when unweighted, for every n >= 1, and no division by
\* zero happens in its computation (a division by zero leaves inf or NaN
\* in a sum of the wide or of the scalar accumulator).
C20_MeanSquaredError ==
    (pc = "done" /\ IsMSE(variant) /\ n >= 1) =>
        /\ result = double(Div(MetRSS, SumSeq(MetW)))
        /\ AllFinite(wide_univariate_stats(acc.e))
        /\ AllFinite(univariate_stats(scalar_acc.e))


\* the weighted mean absolute percentage error of the documentation:
\* (1 / sum of w_i) * sum of w_i |y_i - y_pred_i| / max(epsilon, |y_i|)
MetWMAPE ==
    Div(SumSeq([k \in 1..n |->
                  Mul(MetW[k], Div(abs(Sub(xs[k], ys[k])), max_eps(abs(xs[k]))))]),
        SumSeq(MetW))

\* the unweighted mean_absolute_percentage_error of y_true, y_pred at the
\* width: bulk loop, load_state of the reduced wide state, scalar loop, mean
mean_absolute_percentage_error(y_true, y_pred, width) ==
    LET z  == [k \in 1..Len(y_true) |-> abs_percentage_error(y_true[k], y_pred[k])]
        mm == Len(z) - (Len(z) % width)
        we == bulk_loop(wide_univariate_accumulator(width), z, <<>>, 0, width)
        se == scalar_loop(univariate_load_state_tuple(wide_univariate_stats(we)),
                          z, <<>>, mm + 1)
    IN  univariate_statistics(univariate_stats(se)).mean

\* C21: the weighted mean_absolute_percentage_error returns
\* (1 / sum of w_i) * sum of w_i |y_i - y_pred_i| / max(epsilon, |y_i|), and
\* with all weights 1 the value of the unweighted overload on the same
\* y_true, y_pred.
C21_WeightedMAPE ==
    (pc = "done" /\ variant = "mapew" /\ n >= 1 /\ AllPositive(ws)) =>
        /\ result = double(MetWMAPE)
        /\ (\A k \in 1..n : ws[k] = One) =>
               result = double(mean_absolute_percentage_error(xs, ys, s))

---------------------------------------------------------------------------
(* Claims about insufficient mass, the hand-off and combine.               *)

\* C22: a statistics struct built from an accumulator whose total weight sw
\* is 0 or <= 1 is returned like any other: count and sum are the
\* accumulator's (and the input's) total weight and weighted sum, mean is
\* the quotient sum / sw (NaN for sw = 0), the sample variances and the
\* sample covariance are the quotients by sw - 1 (NaN or infinite for
\* sw = 1, a quotient by -1 for sw = 0).
C22_InsufficientMass ==
    (pc = "done" /\ Leq(final_stats[1], One)) =>
        LET st == final_stats
            sw == st[1]
        IN  /\ result.count = sw
            /\ (variant # "biw") => result.count = RefCount
            /\ IF IsBivariate(variant)
               THEN /\ result.sum_x = st[2] /\ result.sum_y = st[3]
                    /\ (variant # "biw") =>
                           result.sum_x = RefSum /\ result.sum_y = RefSum2
                    /\ result.mean_x = Div(st[2], sw)
                    /\ result.mean_y = Div(st[3], sw)
                    /\ result.sample_variance_x = Div(st[4], Sub(sw, One))
                    /\ result.sample_variance_y = Div(st[5], Sub(sw, One))
                    /\ result.sample_covariance = Div(st[6], Sub(sw, One))
                    /\ (sw = Zero) => IsNaN(result.mean_x) /\ IsNaN(result.mean_y)
                    /\ (sw = One) => /\ ~IsFinite(result.sample_variance_x)
                                     /\ ~IsFinite(result.sample_covariance)
               ELSE /\ result.sum = st[2]
                    /\ result.sum = RefSum
                    /\ result.mean = Div(st[2], sw)
                    /\ result.sample_variance = Div(st[3], Sub(sw, One))
                    /\ (sw = Zero) => IsNaN(result.mean)
                    /\ (sw = One) => ~IsFinite(result.sample_variance)

\* C22 witness: a univariate call on an empty range has returned count 0,
\* sum 0, a NaN mean and the sample variance 0 / (0 - 1).
C22_Witness ==
    /\ pc = "done" /\ variant = "uni" /\ n = 0
    /\ result.count = Zero /\ result.sum = Zero
    /\ IsNaN(result.mean)
    /\ result.sample_variance = Zero

\* the n < s branch of the variant as a function of the input: the scalar
\* loop from offset k on, then the statistics of the scalar accumulator
RECURSIVE small_loop(_, _)
small_loop(a, k) ==
    IF ~(k < n) THEN a ELSE small_loop(scalar_call(a, k), k + small_stride)

scalar_only_path == scalar_statistics(small_loop(new_scalar_acc, 0))

\* C23: when n >= s is a multiple of s the call makes no load_state call and
\* no scalar update, returns the statistics of the wide accumulator's
\* stats(), and the result equals the result of the scalar-only path on
\* the same input.
C23_NoScalarPhase ==
    (n >= s /\ m = n) =>
        /\ \A k \in 1..Len(trace) : trace[k].call = "wide"
        /\ scalar_acc = <<>>
        /\ (pc = "done") =>
              /\ result = wide_statistics(acc)
              /\ result = scalar_only_path

\* the pairwise formula q = q0 + q1 + (n1 s0 - n0 s1)^2 / (n0 n1 (n0 + n1))
\* for two partitions <<n, s, q>>, and the partition it makes
Pairwise(a, b) ==
    <<Add(a[1], b[1]), Add(a[2], b[2]),
      Add(Add(a[3], b[3]),
          Div(square(Sub(Mul(b[1], a[2]), Mul(a[1], b[2]))),
              Mul(Mul(a[1], b[1]), Add(a[1], b[1]))))>>

\* lane l of the accumulator o as a partition <<n, s, q>>
Lane(o, l) == <<o[l].sum_w, o[l].sum_x, o[l].sum_xx>>

\* a half of a width-8 accumulator as a partition: the sums over its lanes
\* and the combine of its lanes
Half(o, from) ==
    LET h == SubSeq(o, from, from + 3)
    IN  <<reduce(field(h, "sum_w")), reduce(field(h, "sum_x")),
          combine(field(h, "sum_w"), field(h, "sum_x"), field(h, "sum_xx"))>>

\* C24: at width 4 combine returns the pairwise formula applied to the
\* merges of lanes (0,1) and (2,3); at width 8 it returns the pairwise
\* formula applied to the two halves, each with n and s summed over its
\* lanes and q the combine of its lanes.
C24_CombinePairwise ==
    (last.op = "combine" /\ kind = "uni") =>
        IF lanes = 4
        THEN before[1] = Pairwise(Pairwise(Lane(obj, 1), Lane(obj, 2)),
                                  Pairwise(Lane(obj, 3), Lane(obj, 4)))[3]
        ELSE before[1] = Pairwise(Half(obj, 1), Half(obj, 5))[3]

\* C24 witness: combine has returned a finite positive value for eight
\* lanes of positive, unlike weights whose halves have unlike sums.
C24_Witness ==
    /\ last.op = "combine" /\ kind = "uni" /\ lanes = 8
    /\ \A l \in 1..lanes : Less(Zero, obj[l].sum_w)
    /\ obj[1].sum_w # obj[2].sum_w
    /\ Half(obj, 1)[2] # Half(obj, 5)[2]
    /\ IsFinite(before[1]) /\ Less(Zero, before[1])

\* the samples of all lanes, and their two-pass weighted sums of squared
\* deviations and of products of deviations
RECURSIVE Flatten(_)
Flatten(ss) == IF ss = <<>> THEN <<>> ELSE Head(ss) \o Flatten(Tail(ss))

UnionW == [k \in 1..Len(Flatten(ref)) |-> Q(Flatten(ref)[k][3])]

UnionX == [k \in 1..Len(Flatten(ref)) |-> Q(Flatten(ref)[k][1])]

UnionY == [k \in 1..Len(Flatten(ref)) |-> sample_y(Flatten(ref)[k], hist.same)]

UnionMean(v) ==
    Div(SumSeq([k \in 1..Len(v) |-> Mul(UnionW[k], v[k])]), SumSeq(UnionW))

UnionSS(u, v) ==
    SumSeq([k \in 1..Len(u) |->
               Mul(UnionW[k], Mul(Sub(u[k], UnionMean(u)), Sub(v[k], UnionMean(v))))])

\* C25: for lanes of non-negative weight, lanes and halves of weight 0
\* included, combine divides by no zero (every value it returns is finite),
\* returns the residual sums of the union of the lanes of nonzero weight,
\* and leaves its arguments as they were.
C25_CombineNonNegative ==
    (last.op = "combine") =>
        /\ AllFinite(before)
        /\ before[1] = UnionSS(UnionX, UnionX)
        /\ (kind = "bi") => /\ before[2] = UnionSS(UnionY, UnionY)
                            /\ before[3] = UnionSS(UnionX, UnionY)
        /\ obj = [l \in 1..lanes |-> lane_state(kind, ref[l], hist.same, Len(ref[l]))]

\* C26: the bivariate combine returns in sxx the univariate combine of
\* (sum_w, sum_x, sum_xx), in syy that of (sum_w, sum_y, sum_yy), and,
\* when the y stream is the x stream, in sxy the value of sxx.
C26_BivariateCombine ==
    (last.op = "combine" /\ kind = "bi") =>
        /\ before[1] = combine(field(obj, "sum_w"), field(obj, "sum_x"),
                               field(obj, "sum_xx"))
        /\ before[2] = combine(field(obj, "sum_w"), field(obj, "sum_y"),
                               field(obj, "sum_yy"))
        /\ (field(obj, "sum_y") = field(obj, "sum_x")
              /\ field(obj, "sum_xy") = field(obj, "sum_xx")) =>
                 before[3] = before[1]

\* C26 witness: the bivariate combine of eight lanes of positive weight
\* whose y stream is the x stream has returned one finite positive value
\* three times, larger than the sum of the lanes' residuals.
C26_Witness ==
    /\ last.op = "combine" /\ kind = "bi" /\ lanes = 8 /\ hist.same
    /\ \A l \in 1..lanes : Less(Zero, obj[l].sum_w)
    /\ field(obj, "sum_y") = field(obj, "sum_x")
    /\ field(obj, "sum_xy") = field(obj, "sum_xx")
    /\ Less(reduce(field(obj, "sum_xx")), before[1])
    /\ before[3] = before[1] /\ before[2] = before[1]

---------------------------------------------------------------------------
(* Termination of the drivers (specification SpecDrvLive).                 *)

\* the number of calls of the kind c made so far
Calls(c) == Cardinality({k \in 1..Len(trace) : trace[k].call = c})

\* C27: every accumulate call returns a statistics struct, for every n >= 0
\* and both widths; until then every iteration of a loop advances the
\* iterators, the bulk loop makes exactly m / s iterations and the scalar
\* loop at most n - m (n when n < s).
C27_Terminates ==
    /\ <>(pc = "done" /\ result # <<>> /\ "count" \in DOMAIN result)
    /\ [][pc' = pc => first' > first /\ first < n]_vars
    /\ [](pc # "idle" =>
             /\ Calls("wide") <= (IF n < s THEN 0 ELSE m \div s)
             /\ Calls("scalar") <= (IF n < s THEN n ELSE n - m)
             /\ (pc = "done" /\ n >= s) => Calls("wide") = m \div s)

\* C27 witness: a weighted bivariate call of 9 elements at width 4 has
\* returned after two iterations of the bulk loop and one of the scalar loop.
C27_Witness ==
    /\ pc = "done" /\ variant = "biw" /\ s = 4 /\ n = 9
    /\ Calls("wide") = 2 /\ Calls("scalar") = 1
    /\ result.count = RefCount

---------------------------------------------------------------------------
(* Claims about load_state(std::tuple) (specification SpecTuple).          *)

\* C28: a scalar bivariate accumulator reloaded from the tuple of its own
\* stats() reports the stats() it had, field by field, and after further
\* updates the stats() of the accumulator that was never reloaded.
C28_TupleRoundTrip ==
    (kind = "bi" /\ hist.loaded # "no") =>
        /\ (last.op = "load_state") => stats(kind, lanes, obj) = before
        /\ stats(kind, lanes, obj) = stats(kind, lanes, hist.twin)

---------------------------------------------------------------------------
(* Claims about VarianceCalculator (specification SpecVar).                *)

\* Count(), Mean(), SumXX() of a calculator
vc_report(c) == <<c.sum_w, Div(c.sum_x, c.sum_w), c.sum_xx>>

\* C29: from every calculator state the bulk Add(x, n) leaves the Count,
\* Mean and SumXX that the calls Add(x[0]), ..., Add(x[n-1]) leave; on a
\* fresh or Reset calculator these are n, sum / n and the sum of the
\* squared deviations from the mean.
C29_BulkAddEqualsSingle ==
    (last.op = "AddN") =>
        /\ vc_report(obj) = vc_report(vc_AddEach(before, last.x, 1))
        /\ vc_report(obj) = vc_report(ref)
        /\ (before = VarianceCalculator /\ Len(last.x) >= 1) =>
              LET mean == Div(SumSeq(last.x), Q(Len(last.x)))
              IN  vc_report(obj) =
                     <<Q(Len(last.x)), mean,
                       SumSeq([k \in 1..Len(last.x) |->
                                  square(Sub(last.x[k], mean))])>>

---------------------------------------------------------------------------
(* The retained previous weight (specification SpecAcc).                   *)

\* the scalar states an accumulator is made of: itself, or its lanes
Lanes(o) == IF lanes = 1 THEN {o} ELSE {o[l] : l \in 1..lanes}

\* the divisor of the next update of the lane state c with the weight w:
\* (sum_w after the update) * sum_w_old
next_divisor(c, w) == Mul(Add(c.sum_w, w), c.sum_w_old)

=============================================================================
